---- MODULE Spec2Model ----
(***************************************************************************)
(* statikk: single-table object mapping over a DynamoDB-like store.        *)
(*                                                                         *)
(* The main specification keeps one entity tree in memory (a Root holding a Mid, the    *)
(* Mid holding Leaf entities in two list fields and one optional singular  *)
(* field), the table's records, and the root's snapshot key set.           *)
(*                                                                         *)
(* Strings are sequences of one-character strings, so that joining with    *)
(* the delimiter, prefix tests and splitting are computed, not assumed.    *)
(* Python's None is the one-element sequence NoneV, whose element is not   *)
(* a character.                                                            *)
(***************************************************************************)
EXTENDS Integers, Sequences, FiniteSets, TLC

\* Number of operations the caller performs on the tree.
MaxSteps == 4

----------------------------------------------------------------------------
(* Entity classes: the shape used by tests/test_engine.py                  *)
(* (test_nested_hierarchies, test_add_child_node).                         *)

Nodes == {"r", "m", "l1", "l2"}

\* Entities without children, saved and queried on their own (the classes of
\* test_query_model_index, test_query_no_range_key_provided and
\* test_query_hash_key_is_type; "CardDeck" is a class whose name starts
\* with the name of another).
FlatIds == {"c1", "d1", "b1", "t1"}
NoNode == "-"
NoField == "-"
NoneV == <<"None">>

ModelClass(n) ==
    CASE n = "r" -> "Root" [] n = "m" -> "Mid"
      [] n = "c1" -> "Card" [] n = "d1" -> "CardDeck" [] n = "b1" -> "Board"
      [] n = "t1" -> "Typed"
      [] OTHER -> "Leaf"

\* DatabaseModel.type(): the class name.
type(c) ==
    CASE c = "Root" -> <<"R">> [] c = "Mid" -> <<"M">>
      [] c = "Card" -> <<"C">> [] c = "CardDeck" -> <<"C", "D">> [] c = "Board" -> <<"B">>
      [] c = "Typed" -> <<"T">>
      [] OTHER -> <<"L">>

\* DatabaseModel.is_nested(), overridden to True by the nested classes.
is_nested(c) == c \in {"Mid", "Leaf"}

\* Declared scalar fields and entity-holding fields, in declaration order.
ScalarFields(c) ==
    CASE c = "Root" -> <<"foo", "state">> [] c = "Mid" -> <<"bar">>
      [] c \in {"Card", "CardDeck", "Board"} -> <<"player_id", "tier">>
      [] c = "Typed" -> <<"tier">>
      [] OTHER -> <<"baz">>
ChildFields(c) ==
    CASE c = "Root" -> <<"nested">>
      [] c = "Mid" -> <<"items", "other_items", "optional">>
      [] OTHER -> <<>>
IsListField(f) == f \in {"items", "other_items"}
FieldClass(f) == IF f = "nested" THEN "Mid" ELSE "Leaf"

\* index_definitions() for the one configured index, "main-index".
pk_fields(c) ==
    CASE c = "Root" -> <<"foo">> [] c = "Mid" -> <<>>
      [] c \in {"Card", "CardDeck", "Board"} -> <<"player_id">>
      [] c = "Typed" -> <<"__statikk_type">>
      [] OTHER -> <<"baz">>
sk_fields(c) ==
    CASE c = "Root" -> <<"state">> [] c = "Mid" -> <<"bar">>
      [] c \in {"Card", "CardDeck", "Board", "Typed"} -> <<"tier">>
      [] OTHER -> <<"baz">>

\* Values a caller assigns to each scalar field.
FieldValues(f) ==
    CASE f = "foo" -> {<<"p">>, <<"q">>}
      [] f = "state" -> {<<"s">>}
      [] f = "player_id" -> {<<"1">>, <<"2">>}
      [] f = "tier" -> {<<"E">>, <<"L">>}
      [] OTHER -> {<<"a">>, <<"b">>}
DefaultValue(f) == CASE f = "foo" -> <<"p">> [] f = "state" -> <<"s">> [] OTHER -> <<"a">>

\* Table(delimiter="|")
delimiter == <<"|">>

Range(s) == {s[i] : i \in 1..Len(s)}

RECURSIVE Concat(_)
Concat(ss) == IF ss = <<>> THEN <<>> ELSE Head(ss) \o Concat(Tail(ss))

\* str.join
RECURSIVE Join(_, _)
Join(sep, parts) ==
    IF parts = <<>> THEN <<>>
    ELSE IF Len(parts) = 1 THEN parts[1]
    ELSE parts[1] \o sep \o Join(sep, Tail(parts))

\* str.startswith
StartsWith(s, p) == Len(p) <= Len(s) /\ SubSeq(s, 1, Len(p)) = p

\* Byte value of a character (DynamoDB orders string keys by UTF-8 bytes).
Code(ch) ==
    CASE ch = "#" -> 35 [] ch = "1" -> 49 [] ch = "2" -> 50 [] ch = "B" -> 66
      [] ch = "C" -> 67 [] ch = "D" -> 68 [] ch = "E" -> 69 [] ch = "T" -> 84
      [] ch = "L" -> 76 [] ch = "M" -> 77 [] ch = "R" -> 82
      [] ch = "a" -> 97 [] ch = "b" -> 98 [] ch = "p" -> 112 [] ch = "q" -> 113
      [] ch = "s" -> 115 [] ch = "|" -> 124 [] OTHER -> 0

RECURSIVE StrLess(_, _)
StrLess(a, b) ==
    IF b = <<>> THEN FALSE
    ELSE IF a = <<>> THEN TRUE
    ELSE IF Code(Head(a)) # Code(Head(b)) THEN Code(Head(a)) < Code(Head(b))
    ELSE StrLess(Tail(a), Tail(b))

----------------------------------------------------------------------------
(* State.  The entity objects are identified by their id.                  *)

VARIABLES
    fld,        \* fld[n][f]: value of scalar field f of entity n
    kids,       \* kids[n][f]: the entities held by field f of n, in list order
    parent,     \* DatabaseModel._parent
    pfield,     \* DatabaseModel._parent_field_name
    marked,     \* DatabaseModel._should_delete
    gpk,        \* attribute gsi_pk (partition key of main-index), NoneV if unset
    gsk,        \* attribute gsi_sk (sort key of main-index), NoneV if unset
    ohash,      \* TrackingMixin._original_hash
    spid,       \* attribute __statikk_parent_id set on the object
    snap,       \* the root's _db_snapshot_keys
    store,      \* the table: id -> record, or NoRecord
    trackRoot,  \* whether the Root class overrides should_track to True
    lastOp,     \* the operation that produced this state
    batch,      \* the requests the last put_item sent to the store
    steps       \* operations performed so far

\* State of the query scenario (specification SpecQuery).
VARIABLES
    table,      \* the records of the flat entities: id -> record, or NoRecord
    query       \* the last index query: what was asked, sent and returned

\* State of the paginated reads (specification SpecPages).
VARIABLES
    pages       \* the running query_index, query_hierarchy or scan call

\* State of the batch read (specification SpecBatchGet).
VARIABLES
    bget        \* the running batch_get_items call

\* State of the concurrent saves (specification SpecRace).
VARIABLES
    race        \* the shared table, each caller's copy of the tree, the writes

\* State of the key derivation on its own (specification SpecKeys).
VARIABLES
    derived     \* the entity or tree given, and the keys assigned to it

\* State of the flattening on its own (specification SpecSplit).
VARIABLES
    flat        \* the tree given to split_to_simple_objects and its result

\* State of the query by index name (specification SpecNamed).
VARIABLES
    named       \* the table's indexes, the index_name given, what was sent

\* State of the reconstruction on its own (specification SpecRebuild).
VARIABLES
    rebuilt     \* the records given to reconstruct_hierarchy and its result

memvars == <<fld, kids, parent, pfield, marked, gpk, gsk, ohash, spid>>
treevars == <<fld, kids, parent, pfield, marked, gpk, gsk, ohash, spid,
              snap, store, trackRoot, lastOp, batch, steps>>
queryvars == <<table, query>>
callvars == <<pages, bget, race, derived>>
morevars == <<flat, named, rebuilt>>
vars == <<treevars, queryvars, callvars, morevars>>

\* The in-memory objects as one value, so that a handler's successive
\* assignments can be composed.
Mem == [fld |-> fld, kids |-> kids, parent |-> parent, pfield |-> pfield,
        marked |-> marked, gpk |-> gpk, gsk |-> gsk, ohash |-> ohash,
        spid |-> spid]

SetMem(M) ==
    /\ fld' = M.fld
    /\ kids' = M.kids
    /\ parent' = M.parent
    /\ pfield' = M.pfield
    /\ marked' = M.marked
    /\ gpk' = M.gpk
    /\ gsk' = M.gsk
    /\ ohash' = M.ohash
    /\ spid' = M.spid

NoRecord == [absent |-> TRUE]
NoBatch == [delete_items |-> <<>>, delete_keys |-> {}, put_items |-> <<>>]

\* No condition given (range_key=None), and no query made yet.
NoCondition == [cond |-> "None", value |-> <<>>]
NoQuery == [model_class |-> "-", hash_key |-> <<>>, range_key |-> NoCondition,
            sent |-> NoCondition, result |-> {}]

\* The other scenarios have not started.
QueryIdle == table = [n \in FlatIds |-> NoRecord] /\ query = NoQuery

\* The entities of the flattening scenario, none holding another, and no
\* call made yet.
SNodes == {"h", "x", "y", "z"}
NoFields == [single |-> <<>>, many |-> <<>>, by_name |-> <<>>, plain |-> <<>>]
NoFlat == [T |-> [n \in SNodes |-> NoFields], pc |-> "idle", items |-> <<>>]
FlatIdle == flat = NoFlat

\* Python's None where an index name is expected, and no query by index
\* name made yet.
NoIndexName == "<None>"
NoNamed == [indexes |-> <<>>, defined |-> {}, index_name |-> NoIndexName,
            range_is_type |-> FALSE, pc |-> "idle", raised |-> "-",
            index |-> NoIndexName, requests |-> <<>>]
NamedIdle == named = NoNamed

\* No record list given to reconstruct_hierarchy yet.
NoRebuilt == [items |-> <<>>, pc |-> "idle", none |-> FALSE, tree |-> <<>>]
RebuildIdle == rebuilt = NoRebuilt

MoreIdle == FlatIdle /\ NamedIdle /\ RebuildIdle

\* A store response without items, and no paginated call made yet.
NoResponse == [Items |-> <<>>]
NoPages == [op |-> "-", total |-> 0, size |-> 1, pc |-> "idle",
            last_evaluated_key |-> FALSE, items |-> NoResponse,
            pending |-> <<>>, fetches |-> 0, delivered |-> <<>>]

\* No batch read made yet.
NoBatchGet == [ids |-> <<>>, batch_size |-> 1, exists |-> {}, pc |-> "idle",
               id_batches |-> <<>>, request_items |-> <<>>,
               response |-> [Responses |-> <<>>, UnprocessedKeys |-> <<>>],
               results |-> <<>>]

----------------------------------------------------------------------------
(* models.py: traversal                                                    *)

\* The entities a node holds, field by field in declaration order.
ChildrenOf(M, n) ==
    LET fs == ChildFields(ModelClass(n))
    IN  Concat([i \in 1..Len(fs) |-> M.kids[n][fs[i]]])

\* DatabaseModel.traverse_hierarchy: (parent, field_name, child) triples.
traverse_hierarchy(M, n) ==
    LET fs == ChildFields(ModelClass(n))
    IN  Concat([i \in 1..Len(fs) |->
                  [j \in 1..Len(M.kids[n][fs[i]]) |-> <<n, fs[i], M.kids[n][fs[i]][j]>>]])

\* DatabaseModel.dfs_traverse_hierarchy: preorder, the node first.
RECURSIVE dfs_traverse_hierarchy(_, _)
dfs_traverse_hierarchy(M, n) ==
    LET cs == ChildrenOf(M, n)
    IN  <<n>> \o Concat([i \in 1..Len(cs) |-> dfs_traverse_hierarchy(M, cs[i])])

\* Variant: only the entity itself.
split_to_simple_objects_self_only(M, n) == <<n>>

\* DatabaseModel.split_to_simple_objects: preorder, each id once.
RECURSIVE split_walk(_, _, _)
split_walk(M, n, items) ==
    LET RECURSIVE over(_, _)
        over(cs, acc) ==
            IF cs = <<>> THEN acc
            ELSE LET c == Head(cs)
                     acc1 == IF c \in Range(acc) THEN acc ELSE Append(acc, c)
                 IN  over(Tail(cs), split_walk(M, c, acc1))
    IN  over(ChildrenOf(M, n), IF n \in Range(items) THEN items ELSE Append(items, n))

split_to_simple_objects(M, n) == split_walk(M, n, <<>>)

----------------------------------------------------------------------------
(* models.py: TrackingMixin                                                *)

\* should_track: a nested entity asks its parent; a parentless entity is
\* tracked only if its class overrides the property (the Root class does
\* when trackRoot is set, as MyDatabaseModel in tests/test_models.py).
\* Variant: a parentless entity is tracked.
RECURSIVE should_track_parentless(_, _)
should_track_parentless(M, n) ==
    IF ModelClass(n) = "Root" THEN TRUE
    ELSE IF M.parent[n] # NoNode THEN should_track_parentless(M, M.parent[n])
    ELSE TRUE

RECURSIVE should_track(_, _)
should_track(M, n) ==
    IF ModelClass(n) = "Root" THEN trackRoot
    ELSE IF M.parent[n] # NoNode THEN should_track(M, M.parent[n])
    ELSE FALSE

\* hash(()) of an empty list field, and the 0 an untracked entity hashes to.
EmptyTuple == <<"()">>
HashZero == <<>>

\* Variant: the values of the entities a field holds are hashed with the
\* holder's own.
HashedFields_nested_included(M, n) ==
    LET c == ModelClass(n)
        sf == ScalarFields(c)
        cf == ChildFields(c)
    IN  <<<<n>>>>
        \o [i \in 1..Len(sf) |-> M.fld[n][sf[i]]]
        \o Concat([i \in 1..Len(cf) |->
                     [j \in 1..Len(M.kids[n][cf[i]]) |-> M.fld[M.kids[n][cf[i]][j]]]])
        \o (IF M.gpk[n] = NoneV THEN <<>> ELSE <<M.gpk[n]>>)
        \o (IF M.gsk[n] = NoneV THEN <<>> ELSE <<M.gsk[n]>>)

\* _recursive_hash: the tuple of the hashable values of the model fields.
\* A field holding an entity or a list with entities is skipped, an empty
\* list contributes its empty tuple, a None value is skipped.  Python's
\* hash of the tuple is taken to be collision free and never 0.
HashedFields(M, n) ==
    LET c == ModelClass(n)
        sf == ScalarFields(c)
        cf == ChildFields(c)
    IN  <<<<n>>>>
        \o [i \in 1..Len(sf) |-> M.fld[n][sf[i]]]
        \o Concat([i \in 1..Len(cf) |->
                     IF IsListField(cf[i]) /\ M.kids[n][cf[i]] = <<>>
                     THEN <<EmptyTuple>> ELSE <<>>])
        \o (IF M.gpk[n] = NoneV THEN <<>> ELSE <<M.gpk[n]>>)
        \o (IF M.gsk[n] = NoneV THEN <<>> ELSE <<M.gsk[n]>>)

recursive_hash(M, n) == IF ~should_track(M, n) THEN HashZero ELSE HashedFields(M, n)

init_tracking(M, n) == [M EXCEPT !.ohash[n] = recursive_hash(M, n)]

\* Variant: the hashes are compared whether or not the entity is tracked.
was_modified_hash_only(M, n) == recursive_hash(M, n) # M.ohash[n]

was_modified(M, n) ==
    IF should_track(M, n) THEN recursive_hash(M, n) # M.ohash[n] ELSE TRUE

----------------------------------------------------------------------------
(* models.py: DatabaseModel                                                *)

RECURSIVE is_any_parent_marked_for_deletion(_, _)
is_any_parent_marked_for_deletion(M, n) ==
    IF M.parent[n] = NoNode THEN FALSE
    ELSE IF M.marked[M.parent[n]] THEN TRUE
    ELSE is_any_parent_marked_for_deletion(M, M.parent[n])

\* Variant: only the node's own mark counts.
should_delete_own_mark(M, n) == M.marked[n]

should_delete(M, n) ==
    IF is_any_parent_marked_for_deletion(M, n) THEN TRUE ELSE M.marked[n]

\* The value of "bar" with which a Mid is written (the override of
\* DoublyNestedModel in test_nested_hierarchies: return self.bar == "bar").
WritableBar == <<"a">>

\* Variant: a nested entity does not ask its parent.
should_write_to_database_no_delegation(M, n) ==
    IF ModelClass(n) = "Mid" THEN M.fld[n]["bar"] = WritableBar ELSE TRUE

\* should_write_to_database: the Mid class overrides it; otherwise a nested
\* entity asks its parent and any other entity answers True.
RECURSIVE should_write_to_database(_, _)
should_write_to_database(M, n) ==
    IF ModelClass(n) = "Mid" THEN M.fld[n]["bar"] = WritableBar
    ELSE IF is_nested(ModelClass(n))
         THEN should_write_to_database(M, M.parent[n])
         ELSE TRUE

\* _set_parent_to_field and set_parent_references call each other.
RECURSIVE set_parent_references(_, _, _)
RECURSIVE set_parent_to_field(_, _, _, _, _)
set_parent_to_field(M, field, field_name, par, force_override) ==
    IF M.parent[field] # NoNode /\ ~force_override THEN M
    ELSE LET M1 == [M EXCEPT !.parent[field] = par, !.pfield[field] = field_name]
             M2 == set_parent_references(M1, field, force_override)
         IN  init_tracking(M2, field)

set_parent_references(M, n, force_override) ==
    LET RECURSIVE over(_, _)
        over(ts, acc) ==
            IF ts = <<>> THEN acc
            ELSE over(Tail(ts),
                      set_parent_to_field(acc, Head(ts)[3], Head(ts)[2], Head(ts)[1],
                                          force_override))
    IN  over(traverse_hierarchy(M, n), M)

\* get_attribute: the type-tag field resolves to type().
get_attribute(M, n, f) ==
    IF f = "__statikk_type" THEN type(ModelClass(n)) ELSE M.fld[n][f]

----------------------------------------------------------------------------
(* engine.py: index key derivation                                         *)

\* Variant: the entity's own pk_fields are used even under a parent.
get_hash_key_value_own_fields(M, n) ==
    LET pf == pk_fields(ModelClass(n))
    IN  Join(delimiter, [i \in 1..Len(pf) |-> get_attribute(M, n, pf[i])])

\* _get_hash_key_value: the parent's partition-key attribute when there is a
\* parent, else the delimiter join of the pk_fields values.
get_hash_key_value(M, n) ==
    IF M.parent[n] # NoNode THEN M.gpk[M.parent[n]]
    ELSE LET pf == pk_fields(ModelClass(n))
         IN  Join(delimiter, [i \in 1..Len(pf) |-> get_attribute(M, n, pf[i])])

\* Variant: the type is put before the parent's sort key.
sort_key_values_type_first(M, n) ==
    LET c == ModelClass(n)
        sf == sk_fields(c)
    IN  (IF "__statikk_type" \notin Range(pk_fields(c)) THEN <<type(c)>> ELSE <<>>)
        \o (IF M.parent[n] # NoNode THEN <<M.gsk[M.parent[n]]>> ELSE <<>>)
        \o [i \in 1..Len(sf) |-> M.fld[n][sf[i]]]

\* The components _get_sort_key_value joins (string-typed sort key).
sort_key_values(M, n) ==
    LET c == ModelClass(n)
        sf == sk_fields(c)
    IN  (IF M.parent[n] # NoNode THEN <<M.gsk[M.parent[n]]>> ELSE <<>>)
        \o (IF "__statikk_type" \notin Range(pk_fields(c)) THEN <<type(c)>> ELSE <<>>)
        \o [i \in 1..Len(sf) |-> M.fld[n][sf[i]]]

get_sort_key_value(M, n) == Join(delimiter, sort_key_values(M, n))

\* str.join raises TypeError on a None component: the parent's sort-key
\* attribute has never been assigned.
compose_raises(M, n) == NoneV \in Range(sort_key_values(M, n))

\* Table.build_model_indexes, for one entity: both attributes are assigned
\* unconditionally.
build_model_indexes(M, n) ==
    [M EXCEPT !.gsk[n] = get_sort_key_value(M, n),
              !.gpk[n] = get_hash_key_value(M, n)]

\* _prepare_model_data: an attribute that already has a value is kept.
prepare_model_data(M, n) ==
    LET pk == get_hash_key_value(M, n)
        sk == get_sort_key_value(M, n)
    IN  [M EXCEPT !.gpk[n] = IF M.gpk[n] # NoneV THEN M.gpk[n] ELSE pk,
                  !.gsk[n] = IF M.gsk[n] # NoneV THEN M.gsk[n] ELSE sk]

\* Variant: only the first node of the walk is rebuilt.
reparent_walk_first_only(M, nodes, prev) ==
    IF nodes = <<>> THEN [M |-> M, raised |-> FALSE]
    ELSE IF compose_raises(M, Head(nodes)) THEN [M |-> M, raised |-> TRUE]
    ELSE [M |-> build_model_indexes(M, Head(nodes)), raised |-> FALSE]

\* reparent_subtree.  The result carries raised = TRUE when the walk stopped
\* on the TypeError of the first node whose parent has no sort key yet.
RECURSIVE reparent_walk(_, _, _)
reparent_walk(M, nodes, prev) ==
    IF nodes = <<>> THEN [M |-> M, raised |-> FALSE]
    ELSE LET node == Head(nodes)
         IN  IF compose_raises(M, node) THEN [M |-> M, raised |-> TRUE]
             ELSE LET M1 == build_model_indexes(M, node)
                      M2 == IF prev # NoNode THEN [M1 EXCEPT !.spid[node] = prev] ELSE M1
                  IN  reparent_walk(M2, Tail(nodes), node)

reparent_subtree(M, subtree_root, new_parent, field_name) ==
    LET M1 == [M EXCEPT !.parent[subtree_root] = new_parent,
                        !.pfield[subtree_root] = field_name]
        M2 == set_parent_references(M1, subtree_root, TRUE)
    IN  reparent_walk(M2, dfs_traverse_hierarchy(M2, subtree_root), NoNode)

----------------------------------------------------------------------------
(* models.py: add_child_node                                               *)

\* list.remove of the first element with the given id.
RECURSIVE RemoveFirst(_, _)
RemoveFirst(s, x) ==
    IF s = <<>> THEN <<>>
    ELSE IF Head(s) = x THEN Tail(s)
    ELSE <<Head(s)>> \o RemoveFirst(Tail(s), x)

\* _remove_from_parent raises ValueError when the list no longer holds the
\* entity (list.remove(None)).
remove_from_parent_raises(M, n, par, field_name) ==
    IsListField(field_name) /\ n \notin Range(M.kids[par][field_name])

\* Variant: the entity is left in the container that held it.
remove_from_parent_skipped(M, n, par, field_name) == M

remove_from_parent(M, n, par, field_name) ==
    IF IsListField(field_name)
    THEN [M EXCEPT !.kids[par][field_name] = RemoveFirst(@, n)]
    ELSE IF M.kids[par][field_name] = <<n>>
         THEN [M EXCEPT !.kids[par][field_name] = <<>>]
         ELSE M

\* add_child_node(self, field_name, child_node), past its argument checks.
\* raised = TRUE: reparent_subtree raised and the child was not added.
add_child_node(M, self, field_name, child_node) ==
    LET M1 == IF M.parent[child_node] # NoNode
              THEN remove_from_parent(M, child_node, M.parent[child_node],
                                      M.pfield[child_node])
              ELSE M
        r == reparent_subtree(M1, child_node, self, field_name)
    IN  IF r.raised THEN r
        ELSE [M |-> IF IsListField(field_name)
                    THEN [r.M EXCEPT !.kids[self][field_name] = Append(@, child_node)]
                    ELSE [r.M EXCEPT !.kids[self][field_name] = <<child_node>>],
              raised |-> FALSE]

----------------------------------------------------------------------------
(* engine.py: the save protocol                                            *)

\* _serialize_item: the flat record of an entity.  model_dump leaves out the
\* fields holding nested entities; the wrap serializer adds the type tag
\* and, when the entity has a parent, the parent id and parent field name.
serialize_item(M, n) ==
    [id |-> n,
     fld |-> M.fld[n],
     statikk_type |-> type(ModelClass(n)),
     parent_id |-> M.parent[n],
     parent_field_name |-> M.pfield[n],
     gsi_pk |-> M.gpk[n],
     gsi_sk |-> M.gsk[n]]

\* _create_snapshot_representation: "<hash key>#<sort key>" per node; the
\* table's key schema is KeySchema(hash_key="id"), without a sort key.
snapshot_key(n) == <<n, "#">>

create_snapshot_representation(M, root) ==
    {snapshot_key(n) : n \in Range(dfs_traverse_hierarchy(M, root))}

\* key.split("#", 1)[0]
RECURSIVE split_hash_key(_)
split_hash_key(key) ==
    IF key = <<>> \/ Head(key) = "#" THEN <<>>
    ELSE <<Head(key)>> \o split_hash_key(Tail(key))

\* Variant: the delete leaves the record in the table.
store_delete_kept(st, hash_key) == st

\* The store's delete for a key: the record whose id is the key's hash key.
store_delete(st, hash_key) ==
    [n \in Nodes |-> IF <<n>> = hash_key THEN NoRecord ELSE st[n]]

\* _perform_batch_write, first group: the items queued with batch.delete.
\* Each is prepared, serialized and deleted by its key.  The batch writer
\* flushes what it holds when an exception leaves its block.
RECURSIVE delete_items_group(_, _, _, _)
delete_items_group(M, st, items, sent) ==
    IF items = <<>> THEN [M |-> M, store |-> st, sent |-> sent, raised |-> FALSE]
    ELSE LET n == Head(items)
         IN  IF compose_raises(M, n)
             THEN [M |-> M, store |-> st, sent |-> sent, raised |-> TRUE]
             ELSE delete_items_group(prepare_model_data(M, n), store_delete(st, <<n>>),
                                     Tail(items), Append(sent, n))

\* Second group: the keys queued with batch.delete_by_key.
RECURSIVE delete_keys_group(_, _)
delete_keys_group(st, keys) ==
    IF keys = {} THEN st
    ELSE LET k == CHOOSE x \in keys : TRUE
         IN  delete_keys_group(store_delete(st, k), keys \ {k})

\* Variant: every item queued with batch.put is written.
RECURSIVE put_items_group_unfiltered(_, _, _, _)
put_items_group_unfiltered(M, st, items, sent) ==
    IF items = <<>> THEN [M |-> M, store |-> st, sent |-> sent, raised |-> FALSE]
    ELSE LET n == Head(items)
         IN  IF compose_raises(M, n)
             THEN [M |-> M, store |-> st, sent |-> sent, raised |-> TRUE]
             ELSE LET M1 == prepare_model_data(M, n)
                  IN  put_items_group_unfiltered(M1, [st EXCEPT ![n] = serialize_item(M1, n)],
                                                 Tail(items), Append(sent, n))

\* Third group: the items queued with batch.put; an unmodified entity and
\* an entity that should not be written are skipped.
RECURSIVE put_items_group(_, _, _, _)
put_items_group(M, st, items, sent) ==
    IF items = <<>> THEN [M |-> M, store |-> st, sent |-> sent, raised |-> FALSE]
    ELSE LET n == Head(items)
         IN  IF compose_raises(M, n)
             THEN [M |-> M, store |-> st, sent |-> sent, raised |-> TRUE]
             ELSE LET M1 == prepare_model_data(M, n)
                  IN  IF ~was_modified(M1, n) \/ ~should_write_to_database(M1, n)
                      THEN put_items_group(M1, st, Tail(items), sent)
                      ELSE put_items_group(M1, [st EXCEPT ![n] = serialize_item(M1, n)],
                                           Tail(items), Append(sent, n))

\* Subsequence of the elements satisfying a test, in order.
RECURSIVE SelectIn(_, _)
SelectIn(s, keep) ==
    IF s = <<>> THEN <<>>
    ELSE (IF Head(s) \in keep THEN <<Head(s)>> ELSE <<>>) \o SelectIn(Tail(s), keep)

perform_batch_write(M, st, put_items, delete_items, delete_keys) ==
    IF put_items = <<>> /\ delete_items = <<>>
    THEN [M |-> M, store |-> st, batch |-> NoBatch, raised |-> FALSE]
    ELSE LET d == delete_items_group(M, st, delete_items, <<>>)
             st2 == delete_keys_group(d.store, delete_keys)
             p == put_items_group(d.M, st2, put_items, <<>>)
         IN  IF d.raised
             THEN [M |-> d.M, store |-> d.store, raised |-> TRUE,
                   batch |-> [delete_items |-> d.sent, delete_keys |-> {},
                              put_items |-> <<>>]]
             ELSE [M |-> p.M, store |-> p.store, raised |-> p.raised,
                   batch |-> [delete_items |-> d.sent, delete_keys |-> delete_keys,
                              put_items |-> p.sent]]

\* Variant: the difference is taken the other way round.
keys_to_delete_reversed(snapshot, new_keys) == new_keys \ snapshot

\* keys_to_delete = model._db_snapshot_keys - new_keys
keys_to_delete(snapshot, new_keys) == snapshot \ new_keys

\* Variant: the snapshot key set is replaced before the batch is written.
put_item_snapshot_first(M, st, snapshot, model) ==
    LET items == split_to_simple_objects(M, model)
        new_keys == create_snapshot_representation(M, model)
        delete_keys == {split_hash_key(k) : k \in keys_to_delete(snapshot, new_keys)}
        deleting == {n \in Range(items) : should_delete(M, n)}
        w == perform_batch_write(M, st, SelectIn(items, Range(items) \ deleting),
                                 SelectIn(items, deleting), delete_keys)
    IN  [M |-> w.M, store |-> w.store, batch |-> w.batch, raised |-> w.raised,
         snap |-> new_keys]

\* Table.put_item.  The snapshot key set is replaced after the batch write
\* has returned.
put_item(M, st, snapshot, model) ==
    LET items == split_to_simple_objects(M, model)
        new_keys == create_snapshot_representation(M, model)
        delete_keys == {split_hash_key(k) : k \in keys_to_delete(snapshot, new_keys)}
        deleting == {n \in Range(items) : should_delete(M, n)}
        w == perform_batch_write(M, st, SelectIn(items, Range(items) \ deleting),
                                 SelectIn(items, deleting), delete_keys)
    IN  [M |-> w.M, store |-> w.store, batch |-> w.batch, raised |-> w.raised,
         snap |-> IF w.raised THEN snapshot ELSE new_keys]

----------------------------------------------------------------------------
(* engine.py: query_hierarchy and reconstruct_hierarchy                    *)

\* The records the index query returns: partition key Equals(pk), sort key
\* BeginsWith(type()) of the queried (Root) class.
QueryMatches(st, pk) ==
    {n \in Nodes : /\ st[n] # NoRecord
                   /\ st[n].gsi_pk = pk
                   /\ StartsWith(st[n].gsi_sk, type("Root"))}

\* The store returns them in sort-key order; records with equal sort keys
\* come in an order the store chooses.
Orderings(S) ==
    {s \in [1..Cardinality(S) -> S] : \A i, j \in 1..Cardinality(S) : i # j => s[i] # s[j]}

QueryResults(st, pk) ==
    {s \in Orderings(QueryMatches(st, pk)) :
        \A i, j \in 1..Len(s) : i < j => ~StrLess(st[s[j]].gsi_sk, st[s[i]].gsi_sk)}

\* _process_item: the children recorded under an item's id and a field name;
\* a list field takes them all in the order of the items, any other field
\* takes its child only when there is exactly one.
field_children(st, items, n, f) ==
    LET RECURSIVE sel(_)
        sel(s) ==
            IF s = <<>> THEN <<>>
            ELSE (IF st[Head(s)].parent_id = n /\ st[Head(s)].parent_field_name = f
                  THEN <<Head(s)>> ELSE <<>>) \o sel(Tail(s))
        ch == sel(items)
    IN  IF IsListField(f) THEN ch ELSE IF Len(ch) = 1 THEN ch ELSE <<>>

\* reconstruct_hierarchy: the root is the first item without a parent id.
root_items(st, items) == SelectSeq(items, LAMBDA n : st[n].parent_id = NoNode)

reconstruct_hierarchy(st, items) ==
    [n \in Nodes |->
        [f \in Range(ChildFields(ModelClass(n))) |-> field_children(st, items, n, f)]]

EmptyKids == [n \in Nodes |-> [f \in Range(ChildFields(ModelClass(n))) |-> <<>>]]

\* A newly constructed entity: default field values, no parent, no keys.
FreshMem ==
    [fld |-> [n \in Nodes |->
                [f \in Range(ScalarFields(ModelClass(n))) |-> DefaultValue(f)]],
     kids |-> EmptyKids,
     parent |-> [n \in Nodes |-> NoNode],
     pfield |-> [n \in Nodes |-> NoField],
     marked |-> [n \in Nodes |-> FALSE],
     gpk |-> [n \in Nodes |-> NoneV],
     gsk |-> [n \in Nodes |-> NoneV],
     ohash |-> [n \in Nodes |-> HashZero],
     spid |-> [n \in Nodes |-> NoNode]]

\* initialize_tracking, the validator run when the root object is built:
\* the nested objects were built before it, each untracked and parentless.
initialize_tracking(M, root) ==
    init_tracking(set_parent_references(M, root, FALSE), root)

\* model_validate of the reconstructed dict: the entities of the result.
\* The entities that are not part of it are new objects.
validate_hierarchy(st, items, root) ==
    LET k == reconstruct_hierarchy(st, items)
        K == [kids |-> k]
        reach == Range(dfs_traverse_hierarchy(K, root))
        M0 == [FreshMem EXCEPT
                 !.fld = [n \in Nodes |-> IF n \in reach THEN st[n].fld ELSE @[n]],
                 !.kids = [n \in Nodes |-> IF n \in reach THEN k[n] ELSE @[n]],
                 !.gpk = [n \in Nodes |-> IF n \in reach THEN st[n].gsi_pk ELSE @[n]],
                 !.gsk = [n \in Nodes |-> IF n \in reach THEN st[n].gsi_sk ELSE @[n]],
                 !.spid = [n \in Nodes |-> IF n \in reach THEN st[n].parent_id ELSE @[n]]]
    IN  initialize_tracking(M0, root)

----------------------------------------------------------------------------
(* The caller's operations                                                 *)

Root == "r"
Leaves == {n \in Nodes : ModelClass(n) = "Leaf"}
TreeNodes == Range(dfs_traverse_hierarchy(Mem, Root))

Op(name, node, field, arg) == [op |-> name, node |-> node, field |-> field, arg |-> arg]

\* Where the constructor call puts each leaf: in a field of the Mid, or
\* nowhere (the leaf is built on its own, to be added later).
Placements ==
    {pl \in [Leaves -> {"items", "other_items", "optional", NoField}] :
        /\ pl["l1"] \in {"items", "optional", NoField}
        /\ pl["l2"] \in {"items", NoField}}

InitialKids(pl) ==
    [EmptyKids EXCEPT
        !["r"]["nested"] = <<"m">>,
        !["m"] = [f \in Range(ChildFields("Mid")) |->
                    SelectIn(<<"l1", "l2">>, {l \in Leaves : pl[l] = f})]]

\* Root(foo=.., state=.., nested=Mid(bar=.., items=[..], ..)): the objects
\* right after construction, and an empty table.
InitTree ==
    /\ trackRoot \in BOOLEAN
    /\ \E pl \in Placements :
          LET M == initialize_tracking([FreshMem EXCEPT !.kids = InitialKids(pl)], Root)
          IN  /\ fld = M.fld
              /\ kids = M.kids
              /\ parent = M.parent
              /\ pfield = M.pfield
              /\ marked = M.marked
              /\ gpk = M.gpk
              /\ gsk = M.gsk
              /\ ohash = M.ohash
              /\ spid = M.spid
    /\ snap = {}
    /\ store = [n \in Nodes |-> NoRecord]
    /\ lastOp = Op("init", NoNode, NoField, NoNode)
    /\ batch = NoBatch
    /\ steps = 0

\* The callers that save concurrently, and the state before either has
\* loaded its copy: an empty table, no write made.
Callers == {"A", "B"}
NoChange == [kind |-> "-", node |-> NoNode, field |-> NoField, value |-> <<>>]
NoCaller == [pc |-> "idle", M |-> FreshMem, snap |-> {}, change |-> NoChange,
             put_items |-> <<>>, delete_keys |-> {}]
NoRace == [store |-> [n \in Nodes |-> NoRecord],
           callers |-> [c \in Callers |-> NoCaller],
           log |-> <<>>]

\* Python values of the types a sort-key field or a Key default may have:
\* None, an int, a str, a datetime (given by its seconds since the epoch).
PyNone == [type |-> "NoneType", v |-> "None"]
PyInt(v) == [type |-> "int", v |-> v]
PyStr(v) == [type |-> "str", v |-> v]
PyDatetime(v) == [type |-> "datetime", v |-> v]

\* No key derivation asked for yet.
NoKeys == [case |-> "-", key_type |-> "int", default |-> PyStr(""), value |-> PyNone,
           root |-> NoNode, M |-> FreshMem, pc |-> "idle",
           result |-> [raised |-> FALSE, value |-> PyNone],
           first |-> [gpk |-> FreshMem.gpk, gsk |-> FreshMem.gsk]]

\* The scenarios of single calls have not started.
\* All single-call scenarios but the flattening at rest.
CallsIdleButSplit ==
    pages = NoPages /\ bget = NoBatchGet /\ race = NoRace /\ derived = NoKeys

CallsIdle ==
    /\ pages = NoPages /\ bget = NoBatchGet /\ race = NoRace /\ derived = NoKeys
    /\ MoreIdle

Init == InitTree /\ QueryIdle /\ CallsIdle

\* One more operation on the tree; the other scenarios are not running.
Step == steps < MaxSteps /\ steps' = steps + 1 /\ UNCHANGED <<queryvars, callvars, morevars>>

\* entity.<field> = value, for an entity of the tree.
SetField ==
    /\ Step
    /\ \E n \in TreeNodes :
       \E f \in Range(ScalarFields(ModelClass(n))) :
       \E v \in FieldValues(f) \ {fld[n][f]} :
          /\ fld' = [fld EXCEPT ![n][f] = v]
          /\ lastOp' = Op("set_field", n, f, NoNode)
    /\ batch' = NoBatch
    /\ UNCHANGED <<kids, parent, pfield, marked, gpk, gsk, ohash, spid, snap, store,
                   trackRoot>>

\* entity.mark_for_delete()
MarkForDelete ==
    /\ Step
    /\ \E n \in TreeNodes :
          /\ ~marked[n]
          /\ marked' = [marked EXCEPT ![n] = TRUE]
          /\ lastOp' = Op("mark_for_delete", n, NoField, NoNode)
    /\ batch' = NoBatch
    /\ UNCHANGED <<fld, kids, parent, pfield, gpk, gsk, ohash, spid, snap, store,
                   trackRoot>>

\* self.add_child_node(field_name, child_node), with a child of the field's
\* class.  The call that raises ValueError before changing anything is not
\* a step; the call that raises inside reparent_subtree leaves its partial
\* assignments behind.
AddChildNode ==
    /\ Step
    /\ \E self \in Nodes :
       \E field_name \in Range(ChildFields(ModelClass(self))) :
       \E child_node \in {c \in Nodes : ModelClass(c) = FieldClass(field_name)} :
          /\ is_nested(ModelClass(child_node))
          /\ self = Root \/ parent[self] # NoNode
          /\ parent[child_node] # NoNode =>
                ~remove_from_parent_raises(Mem, child_node, parent[child_node],
                                           pfield[child_node])
          /\ LET r == add_child_node(Mem, self, field_name, child_node)
             IN  /\ SetMem(r.M)
                 /\ lastOp' = Op(IF r.raised THEN "add_child_node_raised"
                                 ELSE "add_child_node", self, field_name, child_node)
    /\ batch' = NoBatch
    /\ UNCHANGED <<snap, store, trackRoot>>

\* A leaf is taken out of the field that holds it: list.remove(leaf), or
\* None assigned to the singular field.
RemoveChild ==
    /\ Step
    /\ \E c \in TreeNodes \cap Leaves :
          /\ kids' = [kids EXCEPT ![parent[c]][pfield[c]] = RemoveFirst(@, c)]
          /\ lastOp' = Op("remove_child", parent[c], pfield[c], c)
    /\ batch' = NoBatch
    /\ UNCHANGED <<fld, parent, pfield, marked, gpk, gsk, ohash, spid, snap, store,
                   trackRoot>>

\* root.build_model_indexes(): Table.build_model_indexes on every node,
\* the root first, in preorder.
\* Variant: the entities are indexed last to first, children before
\* their parents.
RECURSIVE build_all_children_first(_, _)
build_all_children_first(M, nodes) ==
    IF nodes = <<>> THEN M
    ELSE build_model_indexes(build_all_children_first(M, Tail(nodes)), Head(nodes))

RECURSIVE build_all(_, _)
build_all(M, nodes) ==
    IF nodes = <<>> THEN M ELSE build_all(build_model_indexes(M, Head(nodes)), Tail(nodes))

BuildModelIndexes ==
    /\ Step
    /\ SetMem(build_all(Mem, dfs_traverse_hierarchy(Mem, Root)))
    /\ lastOp' = Op("build_model_indexes", Root, NoField, NoNode)
    /\ batch' = NoBatch
    /\ UNCHANGED <<snap, store, trackRoot>>

\* root.save()
PutItem ==
    /\ Step
    /\ LET w == put_item(Mem, store, snap, Root)
       IN  /\ SetMem(w.M)
           /\ store' = w.store
           /\ snap' = w.snap
           /\ batch' = w.batch
           /\ lastOp' = Op(IF w.raised THEN "put_item_raised" ELSE "put_item",
                           Root, NoField, NoNode)
    /\ UNCHANGED trackRoot

\* Root.query_hierarchy(hash_key=pk) returning a tree, which replaces the
\* caller's tree.
QueryHierarchy ==
    /\ Step
    /\ \E pk \in FieldValues("foo") :
       \E items \in QueryResults(store, pk) :
          /\ root_items(store, items) # <<>>
          /\ LET root == root_items(store, items)[1]
                 M == validate_hierarchy(store, items, root)
             IN  /\ SetMem(M)
                 /\ snap' = create_snapshot_representation(M, root)
          /\ lastOp' = Op("query_hierarchy", Root, NoField, NoNode)
    /\ batch' = NoBatch
    /\ UNCHANGED <<store, trackRoot>>

Next ==
    \/ SetField
    \/ MarkForDelete
    \/ AddChildNode
    \/ RemoveChild
    \/ BuildModelIndexes
    \/ PutItem
    \/ QueryHierarchy

Spec == Init /\ [][Next]_vars

----------------------------------------------------------------------------
(* conditions.py and the index query                                       *)

BeginsWith(v) == [cond |-> "BeginsWith", value |-> v]
Equals(v) == [cond |-> "Equals", value |-> v]

\* Condition.evaluate: the test the store applies to a key value.
evaluate(c, key_value) ==
    CASE c.cond = "BeginsWith" -> StartsWith(key_value, c.value)
      [] c.cond = "Equals" -> key_value = c.value
      [] OTHER -> TRUE

\* BeginsWith.enrich prefixes the value with type() and "|" unless it starts
\* with type() already; Condition.enrich does nothing.
enrich(c, model_class) ==
    IF c.cond = "BeginsWith" /\ ~StartsWith(c.value, type(model_class))
    THEN BeginsWith(type(model_class) \o <<"|">> \o c.value)
    ELSE c

\* _prepare_index_query_params, the choice of the range condition:
\* not range_key or range_key.value != model_class.type(), and the type tag
\* not among the pk_fields.
range_condition(range_key, model_class) ==
    IF (range_key = NoCondition \/ range_key.value # type(model_class))
       /\ "__statikk_type" \notin Range(pk_fields(model_class))
    THEN BeginsWith(type(model_class))
    ELSE range_key

\* _prepare_index_query_params: the key condition sent to the store, as the
\* partition value (hash_key is Equals) and the sort-key condition.
prepare_index_query_params(hash_key, model_class, range_key) ==
    LET r == range_condition(range_key, model_class)
    IN  [hash_key |-> hash_key,
         range_key |-> IF r # NoCondition /\ ~is_nested(model_class)
                       THEN enrich(r, model_class) ELSE r]

\* The records of the index the store returns for a key condition.
store_query(st, params) ==
    {n \in DOMAIN st : /\ st[n] # NoRecord
                       /\ st[n].gsi_pk = params.hash_key
                       /\ evaluate(params.range_key, st[n].gsi_sk)}

\* A new entity without children: the given field values, no keys yet.
FlatMem(n, values) ==
    [fld |-> [x \in {n} |-> values],
     kids |-> [x \in {n} |-> <<>>],
     parent |-> [x \in {n} |-> NoNode],
     pfield |-> [x \in {n} |-> NoField],
     marked |-> [x \in {n} |-> FALSE],
     gpk |-> [x \in {n} |-> NoneV],
     gsk |-> [x \in {n} |-> NoneV],
     ohash |-> [x \in {n} |-> HashZero],
     spid |-> [x \in {n} |-> NoNode]]

FlatClasses == {ModelClass(n) : n \in FlatIds}

\* The values a caller gives as range conditions for a class.
RangeKeys(model_class) ==
    LET vs == {type(model_class), <<"L">>, type(model_class) \o delimiter \o <<"L">>}
    IN  {NoCondition, Equals(type(model_class) \o delimiter \o <<"L">>)}
        \cup {BeginsWith(v) : v \in vs}

\* model_class(field=value, ..).save() of an entity without children.
FlatPut ==
    /\ \E n \in FlatIds :
       \E values \in [Range(ScalarFields(ModelClass(n))) -> {<<"E">>, <<"L">>, <<"1">>, <<"2">>}] :
          /\ \A f \in DOMAIN values : values[f] \in FieldValues(f)
          /\ table' = put_item(FlatMem(n, values), table, {}, n).store
    /\ query' = NoQuery
    /\ UNCHANGED <<treevars, callvars, morevars>>

\* list(table.query_index(hash_key, model_class, range_key)), the table
\* fitting in one page.
QueryIndex ==
    /\ \E model_class \in FlatClasses :
       \E hash_key \in FieldValues("player_id") \cup {type("Typed")} :
       \E range_key \in RangeKeys(model_class) :
          LET params == prepare_index_query_params(hash_key, model_class, range_key)
          IN  query' = [model_class |-> model_class, hash_key |-> hash_key,
                        range_key |-> range_key, sent |-> params.range_key,
                        result |-> store_query(table, params)]
    /\ UNCHANGED <<table, treevars, callvars, morevars>>

\* The tree scenario at rest: one tree, built and never touched.
TreeIdle == InitTree /\ ~trackRoot /\ kids["m"]["items"] = <<"l1", "l2">>

InitQuery == TreeIdle /\ QueryIdle /\ CallsIdle

NextQuery == FlatPut \/ QueryIndex

SpecQuery == InitQuery /\ [][NextQuery]_vars

----------------------------------------------------------------------------
(* engine.py: the paginated reads query_index, query_hierarchy and scan.   *)
(* The records a call matches are numbered 1..total in the order the store *)
(* returns them; the store hands out at most `size` of them per request.   *)

MaxRecords == 4
MaxPage == 3
MaxFetches == 3

PageOps == {"query_index", "query_hierarchy", "scan"}
is_generator(op) == op \in {"query_index", "scan"}

\* The request parameters the call builds before its loop.  The loop passes
\* them unchanged to every request.
page_params(op) ==
    IF op = "scan" THEN [ConsistentRead |-> FALSE]
    ELSE [IndexName |-> "main-index"]

\* The store's answer to one query or scan request: the page after
\* ExclusiveStartKey (after nothing when the request has none), and a
\* LastEvaluatedKey when records remain after the page.
store_page(total, params, size) ==
    LET start == IF "ExclusiveStartKey" \in DOMAIN params
                 THEN params.ExclusiveStartKey ELSE 0
        last == IF start + size < total THEN start + size ELSE total
        Items == [i \in 1..(last - start) |-> start + i]
    IN  IF last < total THEN [Items |-> Items, LastEvaluatedKey |-> last]
        ELSE [Items |-> Items]

\* items.get("LastEvaluatedKey", False), as the loop condition reads it.
get_last_evaluated_key(items) == "LastEvaluatedKey" \in DOMAIN items

\* A call starts: parameters prepared, last_evaluated_key = True.  A
\* generator runs nothing until the consumer asks for the first item.
PageCall ==
    /\ pages.pc \in {"idle", "done", "stopped"} \/ pages.fetches = MaxFetches
    /\ \E op \in PageOps, total \in 0..MaxRecords, size \in 1..MaxPage :
          pages' = [NoPages EXCEPT !.op = op, !.total = total, !.size = size,
                                   !.pc = "loop", !.last_evaluated_key = TRUE]
    /\ UNCHANGED <<treevars, queryvars, bget, race, derived, morevars>>

\* One pass of `while last_evaluated_key`: one request to the store.
\* query_hierarchy extends its list and reads the key; a generator hands
\* the first item of the page to its consumer and is suspended.
PageFetch ==
    /\ pages.pc = "loop" /\ pages.last_evaluated_key
    /\ pages.fetches < MaxFetches
    /\ LET items == store_page(pages.total, page_params(pages.op), pages.size)
       IN  pages' =
             IF is_generator(pages.op) /\ items.Items # <<>>
             THEN [pages EXCEPT !.fetches = @ + 1, !.items = items,
                                !.delivered = Append(@, Head(items.Items)),
                                !.pending = Tail(items.Items),
                                !.pc = "yield"]
             ELSE [pages EXCEPT !.fetches = @ + 1, !.items = items,
                                !.delivered = @ \o items.Items,
                                !.last_evaluated_key = get_last_evaluated_key(items)]
    /\ UNCHANGED <<treevars, queryvars, bget, race, derived, morevars>>

\* The consumer asks for the next item: the generator yields the next item
\* of the page, or, the page exhausted, reads the key and loops.
PageNext ==
    /\ pages.pc = "yield"
    /\ pages' =
          IF pages.pending # <<>>
          THEN [pages EXCEPT !.delivered = Append(@, Head(pages.pending)),
                             !.pending = Tail(@)]
          ELSE [pages EXCEPT !.last_evaluated_key = get_last_evaluated_key(pages.items),
                             !.pc = "loop"]
    /\ UNCHANGED <<treevars, queryvars, bget, race, derived, morevars>>

\* The loop condition is false: the call returns (the generator ends).
PageReturn ==
    /\ pages.pc = "loop" /\ ~pages.last_evaluated_key
    /\ pages' = [pages EXCEPT !.pc = "done"]
    /\ UNCHANGED <<treevars, queryvars, bget, race, derived, morevars>>

\* The consumer of a generator stops iterating, before the first item or
\* after any item.
ConsumerStop ==
    /\ is_generator(pages.op)
    /\ pages.pc = "yield" \/ (pages.pc = "loop" /\ pages.fetches = 0)
    /\ pages' = [pages EXCEPT !.pc = "stopped"]
    /\ UNCHANGED <<treevars, queryvars, bget, race, derived, morevars>>

InitPages == TreeIdle /\ QueryIdle /\ CallsIdle

NextPages == PageCall \/ PageFetch \/ PageNext \/ PageReturn \/ ConsumerStop

SpecPages == InitPages /\ [][NextPages]_vars

----------------------------------------------------------------------------
(* engine.py: batch_get_items.                                             *)

MaxIds == 3
MaxBatchSize == 2

IdPool == {"a", "b", "c"}

\* The id lists a caller passes: no id twice (the store rejects a request
\* that names a key twice).
IdLists ==
    {ids \in UNION {[1..k -> IdPool] : k \in 0..MaxIds} :
        \A i, j \in DOMAIN ids : i # j => ids[i] # ids[j]}

\* [ids[i : i + batch_size] for i in range(0, len(ids), batch_size)]
RECURSIVE chunks(_, _)
chunks(ids, batch_size) ==
    IF ids = <<>> THEN <<>>
    ELSE IF Len(ids) <= batch_size THEN <<ids>>
    ELSE <<SubSeq(ids, 1, batch_size)>>
         \o chunks(SubSeq(ids, batch_size + 1, Len(ids)), batch_size)

\* {self.name: {"Keys": [...]}}
table_request(keys) == [table_name |-> [Keys |-> keys]]

\* What the client accepts as RequestItems: a mapping from table names to
\* key lists.  Anything else is rejected before it is sent.
valid_request(request_items) == DOMAIN request_items = {"table_name"}

\* The answers the store may give to a valid request: it leaves any of the
\* keys but not all of them unprocessed, and returns the items that exist
\* among the processed ones.
batch_get_item(request_items, exists) ==
    LET keys == request_items.table_name.Keys
    IN  {[Responses |-> SelectSeq(keys, LAMBDA k : k \notin U /\ k \in exists),
          UnprocessedKeys |-> IF U = {} THEN <<>>
                              ELSE table_request(SelectSeq(keys, LAMBDA k : k \in U))] :
            U \in {V \in SUBSET Range(keys) : V # Range(keys)}}

\* batch_get_items(ids, model_class, batch_size) is called.
BatchGetCall ==
    /\ bget.pc \in {"idle", "done", "raised"}
    /\ \E ids \in IdLists, batch_size \in 1..MaxBatchSize, exists \in SUBSET IdPool :
          bget' = [NoBatchGet EXCEPT !.ids = ids, !.batch_size = batch_size,
                                     !.exists = exists, !.pc = "for",
                                     !.id_batches = chunks(ids, batch_size)]
    /\ UNCHANGED <<treevars, queryvars, pages, race, derived, morevars>>

\* for batch in id_batches: request_items = {self.name: {"Keys": ...}}
BatchGetNextBatch ==
    /\ bget.pc = "for" /\ bget.id_batches # <<>>
    /\ bget' = [bget EXCEPT !.request_items = table_request(Head(bget.id_batches)),
                            !.id_batches = Tail(@),
                            !.pc = "while"]
    /\ UNCHANGED <<treevars, queryvars, pages, race, derived, morevars>>

\* One pass of `while request_items`: the request is sent; with unprocessed
\* keys reported, request_items becomes response["UnprocessedKeys"][name]
\* and the pass ends; otherwise the responses are added and the loop left.
BatchGetRequest ==
    /\ bget.pc = "while" /\ valid_request(bget.request_items)
    /\ \E response \in batch_get_item(bget.request_items, bget.exists) :
          bget' =
            IF response.UnprocessedKeys # <<>>
            THEN [bget EXCEPT !.response = response,
                              !.request_items = response.UnprocessedKeys.table_name]
            ELSE [bget EXCEPT !.response = response,
                              !.results = @ \o response.Responses,
                              !.pc = "for"]
    /\ UNCHANGED <<treevars, queryvars, pages, race, derived, morevars>>

\* The client rejects request_items that is not a mapping from table names
\* (ParamValidationError); the call ends with the exception.
BatchGetRaise ==
    /\ bget.pc = "while" /\ ~valid_request(bget.request_items)
    /\ bget' = [bget EXCEPT !.pc = "raised"]
    /\ UNCHANGED <<treevars, queryvars, pages, race, derived, morevars>>

\* return results
BatchGetReturn ==
    /\ bget.pc = "for" /\ bget.id_batches = <<>>
    /\ bget' = [bget EXCEPT !.pc = "done"]
    /\ UNCHANGED <<treevars, queryvars, pages, race, derived, morevars>>

InitBatchGet == TreeIdle /\ QueryIdle /\ CallsIdle

NextBatchGet ==
    \/ BatchGetCall
    \/ BatchGetNextBatch
    \/ BatchGetRequest
    \/ BatchGetRaise
    \/ BatchGetReturn

SpecBatchGet == InitBatchGet /\ [][NextBatchGet]_vars

----------------------------------------------------------------------------
(* engine.py: put_item by two callers on one table.  Each caller loads its *)
(* own copy of the tree, changes it and saves it; a save is the three      *)
(* groups of _perform_batch_write, each a batch writer of its own, and     *)
(* nothing keeps another caller's groups from running between them.        *)

\* The table after the tree was first saved.
FirstSave == put_item(Mem, [n \in Nodes |-> NoRecord], {}, Root).store

Written(c, group, nodes) == [caller |-> c, group |-> group, nodes |-> nodes]

\* The log of the groups sent, in the order the store served them; a group
\* without requests is not sent.
Logged(log, c, group, nodes) ==
    IF nodes = {} THEN log ELSE Append(log, Written(c, group, nodes))

\* Variant: the puts follow the deletes by item at once.
group_after_puts_at_once(group) == "put_items"

\* _perform_batch_write: the batch writer opened after the one of a group.
group_after(group) ==
    IF group = "delete_items" THEN "delete_keys" ELSE "put_items"

\* copy = Root.query_hierarchy(hash_key=pk)
RaceLoad(c) ==
    /\ race.callers[c].pc = "idle"
    /\ \E pk \in FieldValues("foo") :
       \E items \in QueryResults(race.store, pk) :
          /\ root_items(race.store, items) # <<>>
          /\ LET root == root_items(race.store, items)[1]
                 M == validate_hierarchy(race.store, items, root)
             IN  race' = [race EXCEPT
                            !.callers[c].pc = "loaded",
                            !.callers[c].M = M,
                            !.callers[c].snap = create_snapshot_representation(M, root)]
    /\ UNCHANGED <<treevars, queryvars, pages, bget, derived, morevars>>

\* The caller changes its copy: a field assigned, an entity marked for
\* deletion, or a leaf taken out of its list.
RaceChange(c) ==
    /\ race.callers[c].pc = "loaded"
    /\ LET M == race.callers[c].M
           nodes == Range(dfs_traverse_hierarchy(M, Root))
       IN  \/ \E n \in nodes :
              \E f \in Range(ScalarFields(ModelClass(n))) :
              \E v \in FieldValues(f) \ {M.fld[n][f]} :
                 race' = [race EXCEPT
                            !.callers[c].pc = "changed",
                            !.callers[c].M = [M EXCEPT !.fld[n][f] = v],
                            !.callers[c].change =
                               [kind |-> "set_field", node |-> n, field |-> f, value |-> v]]
           \/ \E n \in nodes \ {Root} :
                 race' = [race EXCEPT
                            !.callers[c].pc = "changed",
                            !.callers[c].M = [M EXCEPT !.marked[n] = TRUE],
                            !.callers[c].change =
                               [NoChange EXCEPT !.kind = "mark_for_delete", !.node = n]]
           \/ \E n \in nodes \cap Leaves :
                 race' = [race EXCEPT
                            !.callers[c].pc = "changed",
                            !.callers[c].M =
                               [M EXCEPT !.kids[M.parent[n]][M.pfield[n]] = RemoveFirst(@, n)],
                            !.callers[c].change =
                               [NoChange EXCEPT !.kind = "remove_child", !.node = n]]
    /\ UNCHANGED <<treevars, queryvars, pages, bget, derived, morevars>>

\* copy.save(): put_item queues the requests and _perform_batch_write
\* sends the first group, the deletes by item.
RaceDeleteItems(c) ==
    /\ race.callers[c].pc = "changed"
    /\ LET M == race.callers[c].M
           items == split_to_simple_objects(M, Root)
           new_keys == create_snapshot_representation(M, Root)
           delete_keys == {split_hash_key(k) :
                             k \in keys_to_delete(race.callers[c].snap, new_keys)}
           deleting == {n \in Range(items) : should_delete(M, n)}
           put_items == SelectIn(items, Range(items) \ deleting)
           delete_items == SelectIn(items, deleting)
           d == delete_items_group(M, race.store, delete_items, <<>>)
       IN  race' =
             IF put_items = <<>> /\ delete_items = <<>>
             THEN [race EXCEPT !.callers[c].pc = "saved",
                               !.callers[c].snap = new_keys]
             ELSE [race EXCEPT
                     !.store = d.store,
                     !.log = Logged(@, c, "delete_items", Range(d.sent)),
                     !.callers[c].M = d.M,
                     !.callers[c].put_items = put_items,
                     !.callers[c].delete_keys = delete_keys,
                     !.callers[c].pc = IF d.raised THEN "raised"
                                       ELSE group_after("delete_items")]
    /\ UNCHANGED <<treevars, queryvars, pages, bget, derived, morevars>>

\* The second group, the deletes by key.
RaceDeleteKeys(c) ==
    /\ race.callers[c].pc = "delete_keys"
    /\ race' = [race EXCEPT
                  !.store = delete_keys_group(@, race.callers[c].delete_keys),
                  !.log = Logged(@, c, "delete_keys",
                                 {n \in Nodes : <<n>> \in race.callers[c].delete_keys}),
                  !.callers[c].pc = group_after("delete_keys")]
    /\ UNCHANGED <<treevars, queryvars, pages, bget, derived, morevars>>

\* The third group, the puts; put_item then replaces the snapshot keys.
RacePutItems(c) ==
    /\ race.callers[c].pc = "put_items"
    /\ LET p == put_items_group(race.callers[c].M, race.store,
                                race.callers[c].put_items, <<>>)
       IN  race' = [race EXCEPT
                     !.store = p.store,
                     !.log = Logged(@, c, "put_items", Range(p.sent)),
                     !.callers[c].M = p.M,
                     !.callers[c].snap =
                        IF p.raised THEN @
                        ELSE create_snapshot_representation(p.M, Root),
                     !.callers[c].pc = IF p.raised THEN "raised" ELSE "saved"]
    /\ UNCHANGED <<treevars, queryvars, pages, bget, derived, morevars>>

\* One tree, saved once, before either caller loads it.
InitRace ==
    /\ InitTree /\ QueryIdle
    /\ pages = NoPages /\ bget = NoBatchGet /\ derived = NoKeys /\ MoreIdle
    /\ race = [NoRace EXCEPT !.store = FirstSave]

NextRace ==
    \E c \in Callers :
       \/ RaceLoad(c)
       \/ RaceChange(c)
       \/ RaceDeleteItems(c)
       \/ RaceDeleteKeys(c)
       \/ RacePutItems(c)

SpecRace == InitRace /\ [][NextRace]_vars

(* engine.py: put_item by one caller after several changes to its copy.    *)

\* The one caller of the scenario.
Saver == "A"

\* The caller changes its copy further before saving it: after taking a
\* leaf out it may mark an entity for deletion, and after either it may
\* assign a field.
RaceChangeMore(c) ==
    /\ race.callers[c].pc = "changed"
    /\ LET M == race.callers[c].M
           kind == race.callers[c].change.kind
           nodes == Range(dfs_traverse_hierarchy(M, Root))
       IN  \/ /\ kind \in {"remove_child", "mark_for_delete"}
              /\ \E n \in nodes :
                 \E f \in Range(ScalarFields(ModelClass(n))) :
                 \E v \in FieldValues(f) \ {M.fld[n][f]} :
                    race' = [race EXCEPT
                               !.callers[c].M = [M EXCEPT !.fld[n][f] = v],
                               !.callers[c].change =
                                  [kind |-> "set_field", node |-> n, field |-> f, value |-> v]]
           \/ /\ kind = "remove_child"
              /\ \E n \in nodes \ {Root} :
                    race' = [race EXCEPT
                               !.callers[c].M = [M EXCEPT !.marked[n] = TRUE],
                               !.callers[c].change =
                                  [NoChange EXCEPT !.kind = "mark_for_delete", !.node = n]]
    /\ UNCHANGED <<treevars, queryvars, pages, bget, derived, morevars>>

NextSave ==
    \/ RaceLoad(Saver)
    \/ RaceChange(Saver)
    \/ RaceChangeMore(Saver)
    \/ RaceDeleteItems(Saver)
    \/ RaceDeleteKeys(Saver)
    \/ RacePutItems(Saver)

SpecSave == InitRace /\ [][NextSave]_vars

----------------------------------------------------------------------------
(* engine.py: _get_sort_key_value and build_model_indexes on their own,    *)
(* over the values a field may hold.                                       *)

\* GSI(sort_key=Key(name=.., type=.., default=..)) with a type other than
\* str; Key.default is "" unless declared.
KeyTypes == {"int", "datetime"}
KeyDefaults == {PyStr(""), PyNone, PyInt("0"), PyInt("2")}

\* The values the single sk_field may hold.
TypedValues ==
    {PyNone, PyInt("0"), PyInt("1"), PyInt("2"), PyStr(""), PyStr("x"),
     PyDatetime("1"), PyDatetime("2")}

\* Python truth value: None, 0 and "" are false.
truthy(value) == value \notin {PyNone, PyInt("0"), PyStr("")}

\* _serialize_value: a datetime becomes its int timestamp.
serialize_value(value) ==
    IF value.type = "datetime" THEN PyInt(value.v) ELSE value

\* _get_sort_key_value for an index whose sort key type is not str: the
\* type test comes first, then `value or default`.
get_sort_key_value_typed(value, key_type, default) ==
    IF value.type # key_type
    THEN [raised |-> TRUE, value |-> PyNone]
    ELSE [raised |-> FALSE,
          value |-> serialize_value(IF truthy(value) THEN value ELSE default)]

\* str.split(sep) for a one-character separator.
RECURSIVE split(_, _)
split(str, sep) ==
    IF \E i \in DOMAIN str : str[i] = sep[1]
    THEN LET i == CHOOSE k \in DOMAIN str :
                     str[k] = sep[1] /\ \A j \in 1..(k - 1) : str[j] # sep[1]
         IN  <<SubSeq(str, 1, i - 1)>> \o split(SubSeq(str, i + 1, Len(str)), sep)
    ELSE <<str>>

\* The values a string sk_field may hold: with and without the delimiter,
\* and the empty string.
KeyValues == {<<"E">>, <<"L">>, <<"E", "|", "L">>, <<"|">>, <<>>}

\* An entity of a flat class with the given tier.
FlatEntity(n, tier) ==
    FlatMem(n, [f \in Range(ScalarFields(ModelClass(n))) |->
                  IF f = "tier" THEN tier ELSE <<"1">>])

\* A tree as constructed, with the given values in its sort-key fields.
TreeEntity(pl, state, bar, baz) ==
    initialize_tracking(
        [FreshMem EXCEPT !.kids = InitialKids(pl),
                         !.fld["r"]["state"] = state,
                         !.fld["m"]["bar"] = bar,
                         !.fld["l1"]["baz"] = baz],
        Root)

TypedInput(key_type, default, value) ==
    [NoKeys EXCEPT !.case = "typed", !.key_type = key_type, !.default = default,
                   !.value = value, !.pc = "input"]

StringInput(root, M) ==
    [NoKeys EXCEPT !.case = "string", !.root = root, !.M = M, !.pc = "input"]

KeyInputs ==
    {TypedInput(key_type, default, value) :
        key_type \in KeyTypes, default \in KeyDefaults, value \in TypedValues}
    \cup {StringInput(n, FlatEntity(n, tier)) : n \in {"c1", "t1"}, tier \in KeyValues}
    \cup {StringInput(Root, TreeEntity(pl, state, bar, baz)) :
             pl \in Placements, state \in KeyValues, bar \in KeyValues,
             baz \in KeyValues}

\* The entities of the given entity's tree, the root first.
KeyNodes(k) ==
    IF k.root \in FlatIds THEN <<k.root>> ELSE dfs_traverse_hierarchy(k.M, k.root)

\* Table.build_model_indexes on an entity whose index has a typed sort key.
ComposeTypedKey ==
    /\ derived.pc = "input" /\ derived.case = "typed"
    /\ derived' = [derived EXCEPT
                  !.result = get_sort_key_value_typed(derived.value, derived.key_type,
                                                      derived.default),
                  !.pc = "done"]
    /\ UNCHANGED <<treevars, queryvars, pages, bget, race, morevars>>

\* entity.build_model_indexes(), string sort key.
BuildKeys ==
    /\ derived.pc = "input" /\ derived.case = "string"
    /\ LET M == build_all(derived.M, KeyNodes(derived))
       IN  derived' = [derived EXCEPT !.M = M, !.pc = "done",
                                !.first = [gpk |-> M.gpk, gsk |-> M.gsk]]
    /\ UNCHANGED <<treevars, queryvars, pages, bget, race, morevars>>

\* entity.build_model_indexes() a second time, nothing changed in between.
BuildKeysAgain ==
    /\ derived.pc = "done" /\ derived.case = "string"
    /\ derived' = [derived EXCEPT !.M = build_all(derived.M, KeyNodes(derived)), !.pc = "again"]
    /\ UNCHANGED <<treevars, queryvars, pages, bget, race, morevars>>

InitKeys ==
    /\ TreeIdle /\ QueryIdle
    /\ pages = NoPages /\ bget = NoBatchGet /\ race = NoRace /\ MoreIdle
    /\ derived \in KeyInputs

NextKeys == ComposeTypedKey \/ BuildKeys \/ BuildKeysAgain

SpecKeys == InitKeys /\ [][NextKeys]_vars

----------------------------------------------------------------------------
(* models.py: split_to_simple_objects on its own, over entities that hold  *)
(* others in a field of each kind.  The Holder class declares, in order:   *)
(*   single: Optional[Holder]      many: list[Holder]                      *)
(*   by_name: dict[str, Holder]    plain: Optional[SimpleObject]           *)
(* SimpleObject is a pydantic model that is not a DatabaseModel.           *)

SRoot == "h"
SChildren == <<"x", "y", "z">>
HolderFields == <<"single", "many", "by_name", "plain">>
EntityFields == {"single", "many", "by_name"}
PlainObject == "o"

\* issubclass(value.__class__, DatabaseModel)
is_database_model(value) == value \in SNodes

\* The Python type of a field's value.
value_type(field_name) ==
    CASE field_name = "many" -> "list"
      [] field_name = "by_name" -> "dict"
      [] OTHER -> "object"

\* The values split_to_simple_objects looks at, fields in declaration
\* order: the value of a field that is an object, the items of a list; a
\* value of any other type is passed over.
walked_values(T, self) ==
    Concat([i \in 1..Len(HolderFields) |->
              IF value_type(HolderFields[i]) \in {"object", "list"}
              THEN T[self][HolderFields[i]] ELSE <<>>])

\* DatabaseModel.split_to_simple_objects: self is appended unless present;
\* each value looked at that is a DatabaseModel is appended unless present
\* and then walked itself.
RECURSIVE split_objects(_, _, _)
RECURSIVE split_values(_, _, _)
split_values(T, vs, acc) ==
    IF vs = <<>> THEN acc
    ELSE IF is_database_model(Head(vs))
         THEN split_values(T, Tail(vs),
                 split_objects(T, Head(vs),
                    IF Head(vs) \in Range(acc) THEN acc ELSE Append(acc, Head(vs))))
         ELSE split_values(T, Tail(vs), acc)

split_objects(T, self, items) ==
    split_values(T, walked_values(T, self),
                 IF self \in Range(items) THEN items ELSE Append(items, self))

\* Where an entity is held: by a field of an entity that comes before it,
\* or by none.
NoPosition == [parent |-> NoNode, field |-> NoField]
Positions(i) ==
    {NoPosition} \cup
    {[parent |-> p, field |-> f] :
        p \in {SRoot} \cup {SChildren[j] : j \in 1..(i - 1)}, f \in EntityFields}

\* The trees a caller builds: each entity placed, a single field holding at
\* most one, the list possibly holding its first entity a second time, the
\* root possibly holding a SimpleObject.
HolderTree(pos, again, plain) ==
    [n \in SNodes |->
        [f \in Range(HolderFields) |->
            LET held == SelectIn(SChildren,
                           {SChildren[i] : i \in {j \in 1..3 :
                               pos[j] = [parent |-> n, field |-> f]}})
            IN  IF f = "plain" THEN (IF plain /\ n = SRoot THEN <<PlainObject>> ELSE <<>>)
                ELSE IF f = "many" /\ again /\ held # <<>> THEN Append(held, Head(held))
                ELSE held]]

SplitInputs ==
    {[NoFlat EXCEPT !.T = HolderTree(pos, again, plain), !.pc = "input"] :
        pos \in {q \in [1..3 -> UNION {Positions(i) : i \in 1..3}] :
                    /\ \A i \in 1..3 : q[i] \in Positions(i)
                    /\ \A i, j \in 1..3 :
                          (i # j /\ q[i] = q[j] /\ q[i] # NoPosition)
                          => q[i].field # "single"},
        again \in BOOLEAN, plain \in BOOLEAN}

\* root.split_to_simple_objects()
SplitToSimpleObjects ==
    /\ flat.pc = "input"
    /\ flat' = [flat EXCEPT !.items = split_objects(flat.T, SRoot, <<>>), !.pc = "done"]
    /\ UNCHANGED <<treevars, queryvars, callvars, named, rebuilt>>

InitSplit ==
    /\ TreeIdle /\ QueryIdle /\ CallsIdleButSplit /\ NamedIdle /\ RebuildIdle
    /\ flat \in SplitInputs

NextSplit == SplitToSimpleObjects

SpecSplit == InitSplit /\ [][NextSplit]_vars

----------------------------------------------------------------------------
(* engine.py: the index a query goes to.                                   *)

\* The secondary indexes a table may be configured with (models.py, GSI):
\* each has a name and the attribute holding its partition key.
MainIndex == [name |-> "main-index", hash_key |-> "gsi_pk"]
OtherIndex == [name |-> "other-index", hash_key |-> "gsi_pk_2"]
GSIs == {MainIndex, OtherIndex}

\* The values given as index_name: None, the empty string, the name of a
\* possible index, a name no table of the model has.
IndexNames == {NoIndexName, "", "main-index", "other-index", "does-not-exist"}

\* Python's truth value of an index_name.
is_truthy(index_name) == index_name \notin {NoIndexName, ""}

\* Variant: a name the table does not have falls back to the first index.
prepare_index_name_lenient(indexes, defined, index_name, range_is_type) ==
    LET found == SelectSeq(indexes, LAMBDA idx : idx.name = index_name)
        index == IF found = <<>> THEN indexes[1] ELSE found[1]
    IN  IF indexes = <<>>
        THEN [raised |-> "IndexError", index |-> NoIndexName, params |-> <<>>]
        ELSE [raised |-> "-", index |-> index.name,
              params |-> <<[IndexName |-> index.name,
                            KeyAttribute |-> index.hash_key]>>]

\* _prepare_index_query_params, up to the query parameters: the index name
\* defaults to the first index of the table, the index is looked up by name
\* in the table's list, then the model's definition of that index is read
\* unless the range key given is the model's type.
prepare_index_name(indexes, defined, index_name, range_is_type) ==
    IF ~is_truthy(index_name) /\ indexes = <<>>
    THEN [raised |-> "IndexError", index |-> NoIndexName, params |-> <<>>]
    ELSE LET name == IF ~is_truthy(index_name) THEN indexes[1].name ELSE index_name
             index_filter == SelectSeq(indexes, LAMBDA idx : idx.name = name)
         IN  IF index_filter = <<>>
             THEN [raised |-> "InvalidIndexNameError", index |-> name, params |-> <<>>]
             ELSE IF ~range_is_type /\ name \notin defined
             THEN [raised |-> "KeyError", index |-> name, params |-> <<>>]
             ELSE [raised |-> "-", index |-> name,
                   params |-> <<[IndexName |-> name,
                                 KeyAttribute |-> index_filter[1].hash_key]>>]

\* The tables, model classes and calls of the scenario: a table of up to two
\* indexes, a model class defining some of them, a query naming one or none.
NamedInputs ==
    {[NoNamed EXCEPT !.indexes = ix, !.defined = d, !.index_name = nm,
                     !.range_is_type = r, !.pc = "input"] :
        ix \in {<<>>} \cup {<<g>> : g \in GSIs} \cup {<<g, h>> : g \in GSIs, h \in GSIs},
        d \in SUBSET {g.name : g \in GSIs},
        nm \in IndexNames, r \in BOOLEAN}

\* list(table.query_index(..., index_name=...)), up to the first response:
\* the parameters are prepared, and unless that raised, the first request is
\* sent; the response may carry a LastEvaluatedKey.
NamedQueryIndex ==
    /\ named.pc = "input"
    /\ LET p == prepare_index_name(named.indexes, named.defined,
                                   named.index_name, named.range_is_type)
       IN  \E last_evaluated_key \in BOOLEAN :
               named' = [named EXCEPT
                            !.raised = p.raised,
                            !.index = p.index,
                            !.requests = p.params,
                            !.pc = IF p.raised # "-" THEN "raised"
                                   ELSE IF last_evaluated_key THEN "more"
                                   ELSE "done"]
    /\ UNCHANGED <<treevars, queryvars, callvars, flat, rebuilt>>

\* The next turn of the while loop: the same parameters are sent again.
NamedNextRequest ==
    /\ named.pc = "more"
    /\ Len(named.requests) < MaxFetches
    /\ \E last_evaluated_key \in BOOLEAN :
           named' = [named EXCEPT
                        !.requests = Append(@, named.requests[1]),
                        !.pc = IF last_evaluated_key THEN "more" ELSE "done"]
    /\ UNCHANGED <<treevars, queryvars, callvars, flat, rebuilt>>

InitNamed ==
    /\ TreeIdle /\ QueryIdle /\ CallsIdleButSplit /\ FlatIdle /\ RebuildIdle
    /\ named \in NamedInputs

NextNamed == NamedQueryIndex \/ NamedNextRequest

SpecNamed == InitNamed /\ [][NextNamed]_vars

----------------------------------------------------------------------------
(* engine.py: reconstruct_hierarchy on its own, over the record lists a    *)
(* query of one partition may return.                                      *)

\* The ids of the records: two roots, a Mid and two leaves.
RNodes == {"r", "r2", "m", "l1", "l2"}
record_class(id) == IF id = "r2" THEN "Root" ELSE ModelClass(id)

\* A stored record as reconstruct_hierarchy reads it: its id, its type tag
\* and, when the entity had a parent, the parent's id and the name of the
\* parent's field that held it.
Item(id, parent_id, parent_field_name) ==
    [id |-> id, statikk_type |-> record_class(id), parent_id |-> parent_id,
     parent_field_name |-> parent_field_name]

\* The records an entity may have been saved as: a root without parent, the
\* Mid in the nested field of either root, a leaf in a field of the Mid.
ItemsOf(id) ==
    IF record_class(id) = "Root" THEN {Item(id, NoNode, NoField)}
    ELSE IF record_class(id) = "Mid" THEN {Item(id, "r", "nested"), Item(id, "r2", "nested")}
    ELSE {Item(id, "m", f) : f \in Range(ChildFields("Mid"))}

\* children_by_parent_id[id], in the order of the items.
children_by_parent_id(items, id) ==
    SelectSeq(items, LAMBDA it : it.parent_id # NoNode /\ it.parent_id = id)

\* children_by_field[field_name] of _process_item.
children_by_field(of_parent, field_name) ==
    SelectSeq(of_parent, LAMBDA it : it.parent_field_name # NoField
                                      /\ it.parent_field_name = field_name)

\* _process_item, the last branch: a field that is not a list is assigned
\* only when exactly one record names it.
singular_child(records) == IF Len(records) = 1 THEN records ELSE <<>>

\* Variant: the list is built from the records in reverse.
list_children_reversed(records) ==
    [i \in 1..Len(records) |-> records[Len(records) + 1 - i]]

\* _process_item, the list branch: every record, in order.
list_children(records) == records

\* _process_item: the item with each field that holds entities assigned
\* from the records naming the item and the field; a field no record names
\* is not assigned.
RECURSIVE process_item(_, _)
process_item(item, items) ==
    LET of_item == children_by_parent_id(items, item.id)
        fs == Range(ChildFields(item.statikk_type))
    IN  [id |-> item.id,
         fields |->
            [f \in fs |->
                LET named_f == children_by_field(of_item, f)
                    taken == IF named_f = <<>> THEN <<>>
                             ELSE IF IsListField(f) THEN list_children(named_f)
                             ELSE singular_child(named_f)
                IN  [assigned |-> taken # <<>>,
                     value |-> [i \in 1..Len(taken) |-> process_item(taken[i], items)]]]]

\* reconstruct_hierarchy on a list of records: None when no record is
\* without parent id, else the first such record, processed.
reconstruct_records(items) ==
    LET parentless == SelectSeq(items, LAMBDA it : it.parent_id = NoNode)
    IN  IF parentless = <<>> THEN [none |-> TRUE, tree |-> <<>>]
        ELSE [none |-> FALSE, tree |-> <<process_item(parentless[1], items)>>]

\* The record lists: at most one record per id, in any order.
RebuildInputs ==
    UNION {{[NoRebuilt EXCEPT !.items = [i \in 1..Len(order) |-> rec[order[i]]],
                              !.pc = "input"] :
               order \in Orderings(present)} :
           present \in SUBSET RNodes,
           rec \in {q \in [RNodes -> UNION {ItemsOf(id) : id \in RNodes}] :
                      \A id \in RNodes : q[id] \in ItemsOf(id)}}

\* table.reconstruct_hierarchy(items)
ReconstructHierarchy ==
    /\ rebuilt.pc = "input"
    /\ LET res == reconstruct_records(rebuilt.items)
       IN  rebuilt' = [rebuilt EXCEPT !.none = res.none, !.tree = res.tree, !.pc = "done"]
    /\ UNCHANGED <<treevars, queryvars, callvars, flat, named>>

InitRebuild ==
    /\ TreeIdle /\ QueryIdle /\ CallsIdleButSplit /\ FlatIdle /\ NamedIdle
    /\ rebuilt \in RebuildInputs

NextRebuild == ReconstructHierarchy

SpecRebuild == InitRebuild /\ [][NextRebuild]_vars

----------------------------------------------------------------------------
(* engine.py: delete_item, among the caller's operations on the tree.      *)

\* Table.delete_item: every item of split_to_simple_objects is queued with
\* batch.delete, and the batch written; nothing is put.
delete_item(M, st, model) ==
    perform_batch_write(M, st, <<>>, split_to_simple_objects(M, model), {})

\* root.delete()
DeleteItem ==
    /\ Step
    /\ LET w == delete_item(Mem, store, Root)
       IN  /\ SetMem(w.M)
           /\ store' = w.store
           /\ batch' = w.batch
           /\ lastOp' = Op(IF w.raised THEN "delete_item_raised" ELSE "delete_item",
                           Root, NoField, NoNode)
    /\ UNCHANGED <<snap, trackRoot>>

NextDelete == Next \/ DeleteItem

SpecDelete == Init /\ [][NextDelete]_vars

----------------------------------------------------------------------------
(* Claims                                                                  *)

Built == lastOp.op = "build_model_indexes"

\* C1: after build_model_indexes on the root, every entity of the tree that
\* has a parent carries its parent's partition-key attribute, which is the
\* root's, whatever its own pk_fields are.
C1_PartitionKeyInherited ==
    Built =>
       /\ gpk[Root] = fld[Root]["foo"]
       /\ \A n \in TreeNodes :
             parent[n] # NoNode => gpk[n] = gpk[parent[n]] /\ gpk[n] = gpk[Root]

\* C1 witness: a built tree holding a leaf whose own pk_field value differs
\* from the partition key it carries.
C1_Witness ==
    /\ Built
    /\ \E l \in TreeNodes \cap Leaves :
          /\ pk_fields(ModelClass(l)) # <<>>
          /\ fld[l]["baz"] # gpk[l]
          /\ gpk[l] = <<"q">>

\* The sort keys of the three levels, written out from the field values.
RootSortKey == <<"R", "|">> \o fld[Root]["state"]
MidSortKey(n) == RootSortKey \o <<"|", "M", "|">> \o fld[n]["bar"]
LeafSortKey(n) == MidSortKey(parent[n]) \o <<"|", "L", "|">> \o fld[n]["baz"]
PathSortKey(n) ==
    CASE ModelClass(n) = "Root" -> RootSortKey
      [] ModelClass(n) = "Mid" -> MidSortKey(n)
      [] OTHER -> LeafSortKey(n)

\* C2: a string-typed sort key is the delimiter join of the parent's sort
\* key (if any), type() and the sk_fields values, in this order; the three
\* levels get "R|s", "R|s|M|m" and "R|s|M|m|L|l", each a prefix of the
\* sort keys below it.
C2_SortKeyPath ==
    Built =>
       \A n \in TreeNodes :
          /\ gsk[n] = PathSortKey(n)
          /\ parent[n] # NoNode =>
                /\ gsk[n] = gsk[parent[n]] \o delimiter \o type(ModelClass(n))
                               \o delimiter \o fld[n][sk_fields(ModelClass(n))[1]]
                /\ StartsWith(gsk[n], gsk[parent[n]])
                /\ StartsWith(gsk[n], gsk[Root])

\* C2 witness: a built tree of three levels.
C2_Witness ==
    /\ Built
    /\ \E l \in TreeNodes \cap Leaves :
          /\ parent[l] = "m" /\ parent["m"] = Root
          /\ gsk[l] = <<"R", "|", "s", "|", "M", "|", "a", "|", "L", "|", "b">>

Saved == lastOp.op = "put_item"

\* The tree was saved or loaded, leaf l was taken out of it since, nothing
\* else was added or removed, and no node of the tree is marked for deletion.
OneLeafRemoved(l) ==
    /\ snapshot_key(l) \in snap
    /\ create_snapshot_representation(Mem, Root) = snap \ {snapshot_key(l)}
    /\ \A n \in TreeNodes : ~should_delete(Mem, n)

\* C3: when exactly one leaf was removed from a saved or loaded tree, the
\* next put_item of the root sends exactly one delete-by-key, for the key of
\* the removed leaf, and no delete for a node that is still in the tree.
C3_DiffDeletesRemovedLeaf ==
    [][\A l \in Leaves :
          (OneLeafRemoved(l) /\ lastOp'.op \in {"put_item", "put_item_raised"}) =>
             /\ lastOp'.op = "put_item"
             /\ batch'.delete_keys = {<<l>>}
             /\ batch'.delete_items = <<>>
             /\ \A n \in TreeNodes : store[n] # NoRecord => store'[n] # NoRecord]_vars

\* C3 witness: a save that deleted the record of the removed leaf l1 by key
\* while the other leaf stayed in the tree and in the store.
C3_Witness ==
    /\ Saved
    /\ batch.delete_keys = {<<"l1">>}
    /\ batch.delete_items = <<>>
    /\ "l1" \notin TreeNodes /\ "l2" \in TreeNodes
    /\ store["l1"] = NoRecord /\ store["l2"] # NoRecord
    /\ snapshot_key("l1") \notin snap

\* The ancestors of n, nearest first, up to the root.
RECURSIVE AncestorsOf(_)
AncestorsOf(n) ==
    IF parent[n] = NoNode THEN {} ELSE {parent[n]} \cup AncestorsOf(parent[n])

InDeleteQueue(n) == marked[n] \/ \E a \in AncestorsOf(n) : marked[a]

PutReturned == lastOp'.op = "put_item"
PutCalled == lastOp'.op \in {"put_item", "put_item_raised"}

\* C4: on put_item of the root a node that is marked for deletion, or has a
\* marked ancestor, is never put; when the save completes it was sent as a
\* delete-by-item and the store holds no record of it.  A node that is
\* neither marked nor under a marked ancestor is deleted neither by item nor
\* by key and keeps the record it has.
C4_DeleteCascade ==
    [][PutCalled =>
          \A n \in TreeNodes :
             /\ InDeleteQueue(n) =>
                   /\ n \notin Range(batch'.put_items)
                   /\ PutReturned =>
                         /\ n \in Range(batch'.delete_items)
                         /\ store'[n] = NoRecord
             /\ ~InDeleteQueue(n) =>
                   /\ n \notin Range(batch'.delete_items)
                   /\ <<n>> \notin batch'.delete_keys
                   /\ store[n] # NoRecord => store'[n] # NoRecord]_vars

\* C4 witness: a completed save in which an unmarked leaf under a marked
\* parent was deleted by item while the root was put.
C4_Witness ==
    /\ Saved
    /\ marked["m"] /\ ~marked[Root]
    /\ \E l \in TreeNodes \cap Leaves :
          /\ ~marked[l] /\ parent[l] = "m"
          /\ l \in Range(batch.delete_items)
          /\ l \notin Range(batch.put_items)
          /\ store[l] = NoRecord
    /\ Root \in Range(batch.put_items)
    /\ store[Root] # NoRecord

\* The tree a query of the root's partition builds from the records `items`
\* has the nodes of the tree in memory, each under the same parent and
\* parent field, with the same field values and index keys.
SameTree(items) ==
    /\ root_items(store, items) # <<>>
    /\ root_items(store, items)[1] = Root
    /\ LET L == validate_hierarchy(store, items, Root)
       IN  /\ Range(dfs_traverse_hierarchy(L, Root)) = TreeNodes
           /\ \A n \in TreeNodes :
                 /\ L.parent[n] = parent[n]
                 /\ L.pfield[n] = pfield[n]
                 /\ L.fld[n] = fld[n]
                 /\ L.gpk[n] = gpk[n]
                 /\ L.gsk[n] = gsk[n]

NoneMarkedAllWritable ==
    \A n \in TreeNodes : ~InDeleteQueue(n) /\ should_write_to_database(Mem, n)

\* C5: after a completed save of a tree in which no node is marked for
\* deletion and every node is writable, query_hierarchy on the root's
\* partition returns the same tree: same nodes, parents, parent fields,
\* field values and index keys.
C5_RoundTrip ==
    (Saved /\ NoneMarkedAllWritable) =>
       \A items \in QueryResults(store, gpk[Root]) : SameTree(items)

\* The round trip does hold for every tree whose change tracking is disabled.
C5_RoundTripUntracked ==
    (Saved /\ NoneMarkedAllWritable /\ ~trackRoot) =>
       \A items \in QueryResults(store, gpk[Root]) : SameTree(items)

\* Every field of every node of the tree, as a query of partition pk rebuilds
\* it from the store st, holds exactly the children k gives it.
LoadedFields(st, pk, k, tree) ==
    \A items \in QueryResults(st, pk) :
       \A n \in tree : \A f \in Range(ChildFields(ModelClass(n))) :
          Range(field_children(st, items, n, f)) = Range(k[n][f])

LoadedFieldsAsInMemory == LoadedFields(store, gpk[Root], kids, TreeNodes)

Added == lastOp.op = "add_child_node"

\* C9: when add_child_node has put a node under a field of the tree and the
\* root is saved next, query_hierarchy finds the node under that field and
\* under no other: each field holds exactly the children it holds in memory,
\* with change tracking enabled as well as disabled.
C9_MoveThenSave ==
    [][(Added /\ NoneMarkedAllWritable /\ PutReturned) => LoadedFields(store', gpk'[Root], kids', TreeNodes)]_vars

\* With change tracking disabled the moved node is always rewritten.
C9_MoveThenSaveUntracked ==
    [][(Added /\ NoneMarkedAllWritable /\ PutReturned /\ ~trackRoot) =>
          LoadedFields(store', gpk'[Root], kids', TreeNodes)]_vars

\* The state the code reaches: a leaf saved under "items" was moved to
\* "other_items", the root was saved, the leaf was not put, and the store
\* still records it under "items".
C9_StaleParentField ==
    /\ Saved /\ trackRoot /\ NoneMarkedAllWritable
    /\ \E l \in TreeNodes \cap Leaves :
          /\ pfield[l] = "other_items"
          /\ store[l] # NoRecord
          /\ store[l].parent_field_name = "items"
          /\ l \notin Range(batch.put_items)

Constructed == lastOp.op \in {"init", "query_hierarchy"}

\* C6, first part: right after construction (by the caller or by
\* query_hierarchy) no tracked node is modified.
C6_CleanAfterConstruction ==
    Constructed => \A n \in Nodes : should_track(Mem, n) => ~was_modified(Mem, n)

\* C6, second part: assigning a different value to a scalar field of a
\* tracked, unmodified node makes that node modified, and changes
\* was_modified of no other node (no ancestor, no descendant).
C6_OwnFieldOnly ==
    lastOp'.op = "set_field" =>
       LET n == lastOp'.node
       IN  /\ (should_track(Mem, n) /\ ~was_modified(Mem, n)) => was_modified(Mem', n)
           /\ \A k \in Nodes \ {n} : was_modified(Mem', k) = was_modified(Mem, k)

\* C6: for a node whose tracking is enabled was_modified is false right
\* after construction, becomes true as soon as one of its own scalar fields
\* is assigned a different value, and is not changed by the assignment of a
\* field of a child entity, which flips the child's was_modified only.
C6_ChangeTracking == [](C6_CleanAfterConstruction) /\ [][C6_OwnFieldOnly]_vars

\* C6 witness: a field of a tracked leaf has been assigned; the leaf is
\* modified, its parent and the root are not.
C6_Witness ==
    /\ lastOp.op = "set_field"
    /\ lastOp.node \in Leaves \cap TreeNodes
    /\ trackRoot
    /\ was_modified(Mem, lastOp.node)
    /\ ~was_modified(Mem, parent[lastOp.node])
    /\ ~was_modified(Mem, Root)

Excluded(n) == \E a \in AncestorsOf(n) \cup {n} : ~should_write_to_database(Mem, a)

\* A nested entity under an ancestor that is not written is not written.
ExclusionInherited ==
    \A n \in TreeNodes :
       (\E a \in AncestorsOf(n) : ~should_write_to_database(Mem, a)) =>
          ~should_write_to_database(Mem, n)

\* A save puts no record of an excluded entity and leaves the store's entry
\* for it as it was.
ExcludedNotPut ==
    PutCalled =>
       \A n \in TreeNodes :
          Excluded(n) => n \notin Range(batch'.put_items)
                         /\ (~InDeleteQueue(n) => store'[n] = store[n])

\* No record of n is among those a query of any partition returns from st.
NotReturned(st, n) == \A pk \in FieldValues("foo") : n \notin QueryMatches(st, pk)

Holders(n) ==
    {h \in Nodes \X {"nested", "items", "other_items", "optional"} :
        /\ h[2] \in Range(ChildFields(ModelClass(h[1])))
        /\ n \in Range(kids[h[1]][h[2]])}

Occurrences(s, x) == Cardinality({i \in 1..Len(s) : s[i] = x})

\* Every entity reachable from the root is held once, by one field of one
\* parent, and its parent reference and parent field name say so.
HeldOnce ==
    \A n \in TreeNodes \ {Root} :
       /\ Holders(n) = {<<parent[n], pfield[n]>>}
       /\ Occurrences(kids[parent[n]][pfield[n]], n) = 1

\* A returning add_child_node(field, child) on p: the child is appended to
\* a list field or assigned to a singular field, is taken out of the
\* container that held it, and refers to p and the field.
ChildMoved ==
    lastOp'.op = "add_child_node" =>
       LET p == lastOp'.node
           f == lastOp'.field
           c == lastOp'.arg
       IN  /\ parent'[c] = p /\ pfield'[c] = f
           /\ kids'[p][f] = IF IsListField(f)
                            THEN SelectSeq(kids[p][f], LAMBDA x : x # c) \o <<c>>
                            ELSE <<c>>
           /\ \A q \in Nodes : \A g \in Range(ChildFields(ModelClass(q))) :
                 <<q, g>> # <<p, f>> =>
                    kids'[q][g] = SelectSeq(kids[q][g], LAMBDA x : x # c)

CleanAfterSave ==
    (PutReturned /\ trackRoot) =>
       \A n \in Range(batch'.put_items) : ~was_modified(Mem', n)

\* A save that follows a completed save, with nothing done in between, puts
\* no record.
SecondSavePutsNothing ==
    (Saved /\ trackRoot /\ PutReturned) => batch'.put_items = <<>>

\* C10: the fingerprint is taken again after each successful save: right
\* after put_item of a tracked tree returns, was_modified is false for every
\* node that was saved, and a second put_item with no mutation in between
\* puts no record.
C10_FingerprintAfterSave == [][CleanAfterSave /\ SecondSavePutsNothing]_vars

\* A node whose tracking is disabled reports was_modified = True.
UntrackedModified == \A n \in Nodes : ~should_track(Mem, n) => was_modified(Mem, n)

\* A save puts every untracked node of the tree that is writable and not in
\* the delete queue.
UntrackedWritten ==
    PutReturned =>
       \A n \in TreeNodes :
          (~should_track(Mem, n) /\ ~InDeleteQueue(n) /\ ~Excluded(n)) =>
             /\ n \in Range(batch'.put_items)
             /\ store'[n] = serialize_item(Mem', n)

OverrideCoversDescendants == trackRoot => \A n \in TreeNodes : should_track(Mem, n)

\* C12 as stated: without an override tracking is active exactly for the
\* entities that have no parent; with should_track overridden to True on a
\* node every descendant is tracked too.
C12_TrackedIffParentless ==
    /\ ~trackRoot => \A n \in Nodes : should_track(Mem, n) <=> parent[n] = NoNode
    /\ OverrideCoversDescendants

\* C12 amended: without an override tracking is active for no entity (a
\* parentless entity answers False, a nested one answers what its parent
\* answers); with should_track overridden to True on a node every
\* descendant is tracked too.
C12_DefaultUntracked ==
    /\ ~trackRoot => \A n \in Nodes : ~should_track(Mem, n)
    /\ \A n \in Nodes :
          (ModelClass(n) # "Root" /\ parent[n] = NoNode) => ~should_track(Mem, n)
    /\ \A n \in Nodes :
          (ModelClass(n) # "Root" /\ parent[n] # NoNode) =>
             should_track(Mem, n) = should_track(Mem, parent[n])
    /\ OverrideCoversDescendants

\* C12 witness: a field of a root without override has been assigned; the
\* root has no parent, is not tracked and reports was_modified, as do the
\* entities under it (test_tracking_disabled).
C12_Witness ==
    /\ ~trackRoot
    /\ lastOp.op = "set_field" /\ lastOp.node = Root
    /\ parent[Root] = NoNode
    /\ Cardinality(TreeNodes) >= 3
    /\ \A n \in TreeNodes : ~should_track(Mem, n) /\ was_modified(Mem, n)

Queried == query.model_class # "-"

\* The queried class keeps its type in the sort key (the type tag is not
\* its partition key).
TypeInSortKey == "__statikk_type" \notin Range(pk_fields(query.model_class))

\* C13 as stated: a query with a partition condition and no range condition
\* sends BeginsWith(type()) of the queried class and returns only records
\* whose sort key starts with that type followed by the delimiter, never a
\* record of another entity type of the same partition.
C13_DefaultRangeByType ==
    (Queried /\ TypeInSortKey /\ query.range_key = NoCondition) =>
       /\ query.sent = BeginsWith(type(query.model_class))
       /\ \A n \in query.result :
             /\ StartsWith(table[n].gsi_sk, type(query.model_class) \o delimiter)
             /\ ModelClass(n) = query.model_class

\* The part of C13 the code keeps: the default condition is sent and every
\* returned record's sort key starts with the type.
C13_DefaultRangeSent ==
    (Queried /\ TypeInSortKey /\ query.range_key = NoCondition) =>
       /\ query.sent = BeginsWith(type(query.model_class))
       /\ \A n \in query.result : StartsWith(table[n].gsi_sk, type(query.model_class))

\* C14 as stated: a range condition the caller gives is part of the key
\* condition sent (a BeginsWith value prefixed with type() and the delimiter
\* unless it starts with type()), so no record whose sort key fails it is
\* returned.
C14_SuppliedRangeApplied ==
    (Queried /\ query.range_key # NoCondition) =>
       /\ query.sent = enrich(query.range_key, query.model_class)
       /\ \A n \in query.result :
             evaluate(enrich(query.range_key, query.model_class), table[n].gsi_sk)

\* What the code does with a supplied condition: unless its value is
\* exactly type(), or the type tag is the partition key, BeginsWith(type())
\* is sent in its place.
C14_SuppliedRangeReplaced ==
    (Queried /\ query.range_key # NoCondition /\ TypeInSortKey) =>
       query.sent = BeginsWith(type(query.model_class))

\* The state the code reaches: a query with a BeginsWith condition has
\* returned a record whose sort key does not satisfy it.
C14_FailingRecordReturned ==
    /\ Queried
    /\ query.range_key.cond = "BeginsWith"
    /\ \E n \in query.result :
          ~evaluate(enrich(query.range_key, query.model_class), table[n].gsi_sk)

PagesDone == pages.pc = "done"
FirstToTotal == [i \in 1..pages.total |-> i]
PagesNeeded ==
    IF pages.total = 0 THEN 1 ELSE (pages.total + pages.size - 1) \div pages.size

\* C15 as stated: query_index, query_hierarchy and scan make one request per
\* page, each continuing after the page before, so that no record is
\* delivered twice, no more requests are made than the result has pages, a
\* call that has ended has delivered records 1..total in order, and a
\* generator whose consumer stopped makes no further request.
C15_PagesDeliveredOnce ==
    /\ [](/\ \A i, j \in DOMAIN pages.delivered :
               i # j => pages.delivered[i] # pages.delivered[j]
          /\ pages.fetches <= PagesNeeded
          /\ PagesDone => pages.delivered = FirstToTotal)
    /\ [][pages.pc = "stopped" => (pages'.fetches = 0 \/ pages' = pages)]_vars

\* What the code does: every request is the first one again, so nothing
\* beyond the first page is ever delivered; a result of one page is
\* delivered once and the call ends after one request.
C15_FirstPageOnly ==
    /\ \A i \in DOMAIN pages.delivered : pages.delivered[i] <= pages.size
    /\ pages.total <= pages.size =>
          /\ pages.fetches <= 1
          /\ PagesDone => pages.delivered = FirstToTotal
    /\ pages.total > pages.size => ~PagesDone

\* A generator whose consumer stopped makes no further request.
C15_StopEndsFetching ==
    [][pages.pc = "stopped" => (pages'.fetches = 0 \/ pages' = pages)]_vars

\* The state the code reaches: the first page delivered a second time.
C15_FirstPageTwice ==
    /\ pages.total > pages.size
    /\ pages.fetches >= 2
    /\ \E i, j \in DOMAIN pages.delivered :
          i # j /\ pages.delivered[i] = pages.delivered[j]

\* The requested ids that exist, in the order requested.
ExistingRequested == SelectSeq(bget.ids, LAMBDA k : k \in bget.exists)
Times(seq, x) == Cardinality({i \in DOMAIN seq : seq[i] = x})

\* C16 as stated: batch_get_items sends chunks of at most batch_size keys,
\* resubmits the unprocessed keys until none is left, never ends with an
\* exception, and its result holds every requested item that exists once,
\* also an item returned in a response that reported unprocessed keys.
C16_BatchGetComplete ==
    /\ bget.pc # "raised"
    /\ (bget.pc = "while" /\ valid_request(bget.request_items)) =>
          Len(bget.request_items.table_name.Keys) <= bget.batch_size
    /\ bget.pc = "done" =>
          \A k \in IdPool :
             Times(bget.results, k) = Times(ExistingRequested, k)

\* What the code does: chunks hold at most batch_size keys; a call whose
\* requests were all processed in full returns every existing requested
\* item once, in request order; the request after a response with
\* unprocessed keys is not a mapping from table names, so that the call
\* ends with the client's exception and returns nothing.
C16_OnlyFullResponsesReturn ==
    /\ (bget.pc = "while" /\ valid_request(bget.request_items)) =>
          Len(bget.request_items.table_name.Keys) <= bget.batch_size
    /\ bget.pc = "done" => bget.results = ExistingRequested
    /\ (bget.pc \in {"while", "raised"} /\ bget.response.UnprocessedKeys # <<>>) =>
          ~valid_request(bget.request_items)
    /\ bget.pc \in {"done", "for"} => bget.response.UnprocessedKeys = <<>>

\* The state the code reaches: a response that reported unprocessed keys
\* brought an item, the item is not among the results, and the call has
\* ended with the exception.
C16_ResponsesDropped ==
    /\ bget.pc = "raised"
    /\ \E i \in DOMAIN bget.response.Responses :
          Times(bget.results, bget.response.Responses[i]) = 0

\* The groups of the log that held a request for the record of n, and the
\* last of them.
Touching(n) == {i \in DOMAIN race.log : n \in race.log[i].nodes}
LastTouch(n) == race.log[CHOOSE i \in Touching(n) : \A j \in Touching(n) : j <= i]
Other(c) == CHOOSE d \in Callers : d # c

\* C17, the rule of the store: saves take no lock and carry no version, so
\* whatever way the groups of two saves interleave, each record is what the
\* last group that held a request for it made of it: the record the putting
\* caller's copy serializes to, whatever the table held before, or no
\* record after a delete; a record no group touched is as first saved.
C17_LastWriteWins ==
    \A n \in Nodes :
       IF Touching(n) = {} THEN race.store[n] = FirstSave[n]
       ELSE IF LastTouch(n).group = "put_items"
            THEN race.store[n] = serialize_item(race.callers[LastTouch(n).caller].M, n)
            ELSE race.store[n] = NoRecord

\* Caller c assigned a field and its save completed, having put the record;
\* the table no longer holds the value: the other caller, which had loaded
\* its copy before, has overwritten or deleted the record since.
UpdateLost(c) ==
    LET ch == race.callers[c].change
    IN  /\ race.callers[c].pc = "saved"
        /\ ch.kind = "set_field"
        /\ \E i \in Touching(ch.node) :
              /\ race.log[i].caller = c /\ race.log[i].group = "put_items"
              /\ LastTouch(ch.node).caller = Other(c)
        /\ \/ race.store[ch.node] = NoRecord
           \/ race.store[ch.node].fld[ch.field] # ch.value

\* The groups of the two saves were served interleaved: a group of one
\* caller between two groups of the other.
Interleaved ==
    \E i, j, k \in DOMAIN race.log :
       /\ i < j /\ j < k
       /\ race.log[i].caller = race.log[k].caller
       /\ race.log[j].caller # race.log[i].caller

\* C17, the state the claim says is reachable: both saves completed, their
\* groups interleaved, and one caller's completed update is lost.
C17_Witness ==
    /\ \A c \in Callers : race.callers[c].pc = "saved"
    /\ Interleaved
    /\ \E c \in Callers : UpdateLost(c)

\* The update is lost also when the saves do not overlap in time: the
\* second caller saves the copy it loaded before the first caller saved.
C17_LostWithoutInterleaving ==
    /\ \A c \in Callers : race.callers[c].pc = "saved"
    /\ ~Interleaved
    /\ \E c \in Callers : UpdateLost(c)

TypedDone == derived.case = "typed" /\ derived.pc = "done"

\* C18 as stated: for an index whose sort key type is not str, a present
\* value of the declared type gives the value itself as sort key, an empty
\* (None) value gives the index's default, and a present value of another
\* type raises IncorrectSortKeyError and assigns no key.
C18_TypedSortKey ==
    TypedDone =>
       IF derived.value = PyNone
       THEN ~derived.result.raised /\ derived.result.value = serialize_value(derived.default)
       ELSE IF derived.value.type = derived.key_type
            THEN ~derived.result.raised /\ derived.result.value = serialize_value(derived.value)
            ELSE derived.result.raised /\ derived.result.value = PyNone

\* What the code does: every value whose type is not the declared one, None
\* included, raises and assigns no key; a value of the declared type gives
\* itself when it is true and the default when it is false (0).
C18_TypedSortKeyAsCoded ==
    TypedDone =>
       IF derived.value.type # derived.key_type
       THEN derived.result.raised /\ derived.result.value = PyNone
       ELSE /\ ~derived.result.raised
            /\ derived.result.value =
                  serialize_value(IF derived.value = PyInt("0") THEN derived.default
                                  ELSE derived.value)

\* The state the code reaches: None given, the error raised.
C18_NoneRaises == TypedDone /\ derived.value = PyNone /\ derived.result.raised

\* The state the code reaches: 0 given to an int index, another key assigned.
C18_ZeroReplaced ==
    /\ TypedDone /\ derived.value = PyInt("0") /\ derived.key_type = "int"
    /\ derived.result.value # PyInt("0")

StringDone == derived.case = "string" /\ derived.pc \in {"done", "again"}

\* The components a string sort key is built from: those of the ancestors,
\* then type() unless the type tag is a pk_field, then the sk_field values.
RECURSIVE component_sequence(_, _)
component_sequence(M, n) ==
    LET c == ModelClass(n)
        sf == sk_fields(c)
    IN  (IF M.parent[n] # NoNode THEN component_sequence(M, M.parent[n]) ELSE <<>>)
        \o (IF "__statikk_type" \notin Range(pk_fields(c)) THEN <<type(c)>> ELSE <<>>)
        \o [i \in 1..Len(sf) |-> M.fld[n][sf[i]]]

\* C19 as stated: for all field values, splitting an entity's string sort
\* key by the delimiter gives the components it was built from.
C19_SplitRecoversComponents ==
    StringDone =>
       \A n \in Range(KeyNodes(derived)) :
          split(derived.M.gsk[n], delimiter) = component_sequence(derived.M, n)

\* What holds: the split gives the components when none of them contains
\* the delimiter.
C19_SplitWithoutDelimiter ==
    StringDone =>
       \A n \in Range(KeyNodes(derived)) :
          (\A i \in DOMAIN component_sequence(derived.M, n) :
              "|" \notin Range(component_sequence(derived.M, n)[i]))
          => split(derived.M.gsk[n], delimiter) = component_sequence(derived.M, n)

\* The state the code reaches: a key that splits into more parts than it
\* has components.
C19_ValueSplitInTwo ==
    /\ StringDone
    /\ \E n \in Range(KeyNodes(derived)) :
          Len(split(derived.M.gsk[n], delimiter)) > Len(component_sequence(derived.M, n))

\* C20: build_model_indexes called a second time on a tree nothing was
\* changed in leaves every entity of the tree with the partition key and
\* the sort key the first call gave it.
C20_BuildTwiceSameKeys ==
    (derived.case = "string" /\ derived.pc = "again") =>
       \A n \in Range(KeyNodes(derived)) :
          /\ derived.M.gpk[n] = derived.first.gpk[n]
          /\ derived.M.gsk[n] = derived.first.gsk[n]

\* C20, its case: a tree with a leaf under the Mid, indexed twice, every
\* entity holding keys.
C20_Witness ==
    /\ derived.case = "string" /\ derived.pc = "again" /\ derived.root = Root
    /\ Len(KeyNodes(derived)) >= 3
    /\ \A n \in Range(KeyNodes(derived)) : derived.M.gsk[n] # NoneV /\ derived.M.gpk[n] # NoneV

\* The same on the trees of the caller's operations: a build_model_indexes
\* that follows a build_model_indexes changes no key of any entity.
C20_RebuildChangesNothing ==
    [][(Built /\ lastOp'.op = "build_model_indexes") => (gpk' = gpk /\ gsk' = gsk)]_vars

\* n and every entity the tree holds below it through the given fields, in
\* preorder, each once.
RECURSIVE descendants_preorder(_, _, _, _)
RECURSIVE descendants_of_all(_, _, _, _)
descendants_of_all(T, vs, acc, through) ==
    IF vs = <<>> THEN acc
    ELSE descendants_of_all(T, Tail(vs),
            IF Head(vs) \in SNodes
            THEN descendants_preorder(T, Head(vs), acc, through) ELSE acc,
            through)

descendants_preorder(T, n, acc, through) ==
    descendants_of_all(T, Concat([i \in 1..Len(through) |-> T[n][through[i]]]),
                       IF n \in Range(acc) THEN acc ELSE Append(acc, n), through)

SplitDone == flat.pc = "done"

\* C21 as stated: split_to_simple_objects gives the root first, then every
\* descendant entity in preorder, each once, whether held directly, in a
\* list or in a map, and no value that is not an entity.
C21_SplitAllContainers ==
    SplitDone =>
       flat.items = descendants_preorder(flat.T, SRoot, <<>>, <<"single", "many", "by_name">>)

\* What the code does: the same for the entities held directly or in a
\* list, reached through such fields only; an entity held in a map, and
\* everything below it, is left out.
C21_SplitDirectAndList ==
    SplitDone =>
       /\ flat.items = descendants_preorder(flat.T, SRoot, <<>>, <<"single", "many">>)
       /\ flat.items[1] = SRoot
       /\ \A i, j \in DOMAIN flat.items : i # j => flat.items[i] # flat.items[j]
       /\ PlainObject \notin Range(flat.items)

\* The state the code reaches: an entity held in a map is not in the list.
C21_MapEntityLeftOut ==
    /\ SplitDone
    /\ \E n \in Range(flat.items) : \E c \in Range(flat.T[n].by_name) :
          c \notin Range(flat.items)

Deleted == lastOp.op = "delete_item"

\* C22: delete_item(root) sends a delete for the root and for every entity
\* of its tree, and nothing else; afterwards the table holds no record of
\* any of them.
C22_DeleteItemWholeTree ==
    Deleted =>
       /\ \A n \in TreeNodes :
             n \in Range(batch.delete_items) /\ store[n] = NoRecord
       /\ Range(batch.delete_items) = TreeNodes
       /\ batch.put_items = <<>> /\ batch.delete_keys = {}

\* C22, its case: a tree of the root, the Mid and a leaf that was saved or
\* loaded, then deleted.
C22_Witness ==
    /\ Deleted
    /\ Cardinality(TreeNodes) >= 3
    /\ snap = create_snapshot_representation(Mem, Root)
    /\ \A n \in TreeNodes : store[n] = NoRecord

\* delete_item never ends with an exception on a tree a caller can build.
C22_DeleteNeverRaises == lastOp.op # "delete_item_raised"

NamedCalled == named.pc \notin {"idle", "input"}

\* C23: a query whose index_name is a name that no index of the table has
\* ends with InvalidIndexNameError and no request is sent to the store; a
\* query that gives no index name (None or the empty string) on a table
\* with at least one index goes to the first index of the table's list:
\* that is the index looked up, and every request sent carries its name and
\* its partition-key attribute.
C23_IndexNameResolved ==
    NamedCalled =>
        /\ (/\ is_truthy(named.index_name)
            /\ \A i \in 1..Len(named.indexes) :
                   named.indexes[i].name # named.index_name)
           => (named.raised = "InvalidIndexNameError" /\ named.requests = <<>>)
        /\ (~is_truthy(named.index_name) /\ named.indexes # <<>>)
           => /\ named.index = named.indexes[1].name
              /\ named.raised \in {"-", "KeyError"}
              /\ named.raised = "-" => named.requests # <<>>
              /\ \A i \in 1..Len(named.requests) :
                     /\ named.requests[i].IndexName = named.indexes[1].name
                     /\ named.requests[i].KeyAttribute = named.indexes[1].hash_key

\* The test's case: a table with main-index, a query naming another index.
C23_Witness ==
    /\ NamedCalled
    /\ named.indexes = <<MainIndex>>
    /\ named.index_name = "does-not-exist"
    /\ named.raised = "InvalidIndexNameError"

\* A query without index name on a table whose first index is other-index
\* has sent its requests to other-index.
C23_DefaultIndexQueried ==
    /\ named.pc = "done"
    /\ named.index_name = NoIndexName
    /\ named.indexes = <<OtherIndex, MainIndex>>
    /\ Len(named.requests) = 2
    /\ named.requests[2].IndexName = "other-index"

\* The position of caller c's group in the log of the groups sent, 0 when
\* the group was not sent.
GroupAt(c, group) ==
    IF \E i \in 1..Len(race.log) : race.log[i].caller = c /\ race.log[i].group = group
    THEN CHOOSE i \in 1..Len(race.log) :
            race.log[i].caller = c /\ race.log[i].group = group
    ELSE 0

\* Caller c's group a was sent before its group b, when both were sent.
SentBefore(c, a, b) ==
    (GroupAt(c, a) # 0 /\ GroupAt(c, b) # 0) => GroupAt(c, a) < GroupAt(c, b)

\* Once caller c's puts are sent, every delete of its save was sent: the
\* keys it queued with delete_by_key and the entities marked for deletion.
DeletesSentFirst(c) ==
    LET M == race.callers[c].M
        queued == {n \in Nodes : <<n>> \in race.callers[c].delete_keys}
        deleting == {n \in Range(split_to_simple_objects(M, Root)) : should_delete(M, n)}
    IN  GroupAt(c, "put_items") # 0 =>
          /\ queued # {} =>
                /\ GroupAt(c, "delete_keys") # 0
                /\ GroupAt(c, "delete_keys") < GroupAt(c, "put_items")
                /\ race.log[GroupAt(c, "delete_keys")].nodes = queued
          /\ deleting # {} =>
                /\ GroupAt(c, "delete_items") # 0
                /\ GroupAt(c, "delete_items") < GroupAt(c, "put_items")
                /\ race.log[GroupAt(c, "delete_items")].nodes = deleting

\* C24 as stated: a save sends its deletes by key, then its deletes by
\* item, then its puts, and no put before every delete of the save.
C24_KeysThenItemsThenPuts ==
    \A c \in Callers :
       /\ SentBefore(c, "delete_keys", "delete_items")
       /\ SentBefore(c, "delete_items", "put_items")
       /\ SentBefore(c, "delete_keys", "put_items")
       /\ DeletesSentFirst(c)

\* C24, amended: a save sends its deletes by item, then its deletes by key,
\* then its puts, each group once, and no put before every delete of the
\* save.
C24_ItemsThenKeysThenPuts ==
    \A c \in Callers :
       /\ SentBefore(c, "delete_items", "delete_keys")
       /\ SentBefore(c, "delete_keys", "put_items")
       /\ SentBefore(c, "delete_items", "put_items")
       /\ DeletesSentFirst(c)
       /\ \A i, j \in 1..Len(race.log) :
             (/\ race.log[i].caller = c /\ race.log[j].caller = c
              /\ race.log[i].group = race.log[j].group) => i = j

\* A save that sent all three groups.
C24_Witness ==
    \E c \in Callers :
       /\ race.callers[c].pc = "saved"
       /\ GroupAt(c, "delete_items") # 0
       /\ GroupAt(c, "delete_keys") # 0
       /\ GroupAt(c, "put_items") # 0

\* C25: when a put_item of the root has returned, a node of the tree that
\* is not in the delete queue was put if and only if its
\* should_write_to_database() and its was_modified are true, as put_item
\* reads them once the node's key attributes are filled in; a node that was
\* not put keeps the record it had, or none.
C25_PutIffWritableAndModified ==
    /\ [](Saved =>
            \A n \in TreeNodes :
               ~InDeleteQueue(n) =>
                  (n \in Range(batch.put_items)
                     <=> (should_write_to_database(Mem, n) /\ was_modified(Mem, n))))
    /\ [][PutReturned =>
            \A n \in Nodes :
               /\ n \in Range(batch'.put_items) =>
                     /\ store'[n] # NoRecord
                     /\ store'[n].fld = fld'[n]
               /\ (/\ n \notin Range(batch'.put_items)
                   /\ n \notin Range(batch'.delete_items)
                   /\ <<n>> \notin batch'.delete_keys) => store'[n] = store[n]]_vars

\* C25 witness: a completed save of a tracked tree that put the root, left
\* an unmodified leaf alone and skipped a Mid that is not to be written.
C25_Witness ==
    /\ Saved
    /\ trackRoot
    /\ Root \in Range(batch.put_items)
    /\ \E l \in TreeNodes \cap Leaves :
          /\ ~InDeleteQueue(l)
          /\ ~was_modified(Mem, l)
          /\ should_write_to_database(Mem, l)
          /\ l \notin Range(batch.put_items)
          /\ store[l] # NoRecord

\* A completed save that skipped a modified node because its
\* should_write_to_database() is false.
C25_UnwritableSkipped ==
    /\ Saved
    /\ \E n \in TreeNodes :
          /\ ~InDeleteQueue(n)
          /\ was_modified(Mem, n)
          /\ ~should_write_to_database(Mem, n)
          /\ n \notin Range(batch.put_items)

\* The primary keys of the nodes of the tree whose fields hold k.
KeysOfTree(k) == create_snapshot_representation([kids |-> k], Root)

\* C26: the root's snapshot key set is the set of the primary keys of the
\* nodes of the tree as of its last completed save or load: a put_item that
\* returns leaves it equal to the keys of the tree it saved, a put_item that
\* raises leaves it as it was, a query_hierarchy leaves it equal to the keys
\* of the tree it returned, and no other operation changes it.
C26_SnapshotOfLastSaveOrLoad ==
    [][/\ lastOp'.op = "put_item" => (snap' = KeysOfTree(kids) /\ kids' = kids)
       /\ lastOp'.op = "put_item_raised" => snap' = snap
       /\ lastOp'.op = "query_hierarchy" => snap' = KeysOfTree(kids')
       /\ lastOp'.op \notin {"put_item", "put_item_raised", "query_hierarchy"}
             => snap' = snap]_vars

\* C26 witness: a completed save after a node left the tree; the key of
\* that node is no longer in the snapshot, which is the saved tree's keys.
C26_Witness ==
    /\ Saved
    /\ batch.delete_keys # {}
    /\ snap = KeysOfTree(kids)
    /\ \A n \in Nodes : <<n>> \in batch.delete_keys => snapshot_key(n) \notin snap

\* A save that raised, on a tree whose keys are not the snapshot's.
C26_RaisedSaveKeepsSnapshot ==
    /\ lastOp.op = "put_item_raised"
    /\ snap # KeysOfTree(kids)

ChildAdded == lastOp.op = "add_child_node"

\* C27: when add_child_node(field_name, child) has returned, every node of
\* the moved subtree has the partition key of the new parent, and as sort
\* key the sort key of its own parent followed by its type() and the values
\* of its sk_fields; the moved node's parent is the new parent; and every
\* node after the first in the preorder walk of the subtree carries in its
\* parent-id attribute the id of the node walked just before it.
C27_ReparentRebuildsSubtree ==
    ChildAdded =>
        LET walk == dfs_traverse_hierarchy(Mem, lastOp.arg)
        IN  /\ parent[lastOp.arg] = lastOp.node
            /\ pfield[lastOp.arg] = lastOp.field
            /\ \A i \in 1..Len(walk) :
                  LET n == walk[i]
                      sf == sk_fields(ModelClass(n))
                  IN  /\ gpk[n] # NoneV
                      /\ gpk[n] = gpk[lastOp.node]
                      /\ gsk[parent[n]] # NoneV
                      /\ gsk[n] = Join(delimiter,
                                       <<gsk[parent[n]], type(ModelClass(n))>>
                                       \o [j \in 1..Len(sf) |-> fld[n][sf[j]]])
                      /\ i > 1 => spid[n] = walk[i - 1]

\* C27 witness: the Mid was added to the root with its two leaves; the
\* second leaf carries the id of the first leaf, its predecessor in the
\* walk, while its parent is the Mid.
C27_Witness ==
    /\ ChildAdded
    /\ lastOp.arg = "m"
    /\ dfs_traverse_hierarchy(Mem, "m") = <<"m", "l1", "l2">>
    /\ spid["l2"] = "l1"
    /\ parent["l2"] = "m"
    /\ gsk["l2"] = Join(delimiter, <<gsk["m"], type("Leaf"), fld["l2"]["baz"]>>)

Rebuilt == rebuilt.pc = "done"

\* The items of a reconstructed tree, the item first, then the items its
\* fields hold.
RECURSIVE ProcessedItems(_)
ProcessedItems(p) ==
    <<p>> \o Concat([k \in 1..Len(ChildFields(record_class(p.id))) |->
                       Concat([i \in 1..Len(p.fields[ChildFields(record_class(p.id))[k]].value) |->
                                 ProcessedItems(p.fields[ChildFields(record_class(p.id))[k]].value[i])])])

ResultItems == IF rebuilt.tree = <<>> THEN <<>> ELSE ProcessedItems(rebuilt.tree[1])

IdsOf(records) == [i \in 1..Len(records) |-> records[i].id]

\* The records that name the entity id and its field f, in record order.
RecordsNaming(id, f) ==
    SelectSeq(rebuilt.items, LAMBDA it : it.parent_id = id /\ it.parent_field_name = f)

\* C28: in the tree reconstruct_hierarchy returns, a list field of an item
\* holds the reconstructed children whose records name the item and the
\* field, in the order of the records; a singular field that exactly one
\* record names holds that child; a field no record names is not assigned
\* (the model's default stands), and none of this raises.
C28_FieldsRebuilt ==
    Rebuilt =>
        \A i \in 1..Len(ResultItems) :
           LET p == ResultItems[i]
           IN  \A f \in Range(ChildFields(record_class(p.id))) :
                  LET naming == RecordsNaming(p.id, f)
                  IN  /\ (IsListField(f) /\ naming # <<>>) =>
                            /\ p.fields[f].assigned
                            /\ IdsOf(p.fields[f].value) = IdsOf(naming)
                      /\ (~IsListField(f) /\ Len(naming) = 1) =>
                            /\ p.fields[f].assigned
                            /\ IdsOf(p.fields[f].value) = IdsOf(naming)
                      /\ naming = <<>> => ~p.fields[f].assigned

\* C28 witness: the Mid's list field holds its two leaves in the order of
\* their records, the second leaf first; its singular field holds nothing.
C28_Witness ==
    /\ Rebuilt
    /\ IdsOf(rebuilt.items) = <<"r", "l2", "m", "l1">>
    /\ Len(ResultItems) = 4
    /\ ResultItems[2].id = "m"
    /\ IdsOf(ResultItems[2].fields["items"].value) = <<"l2", "l1">>
    /\ ~ResultItems[2].fields["optional"].assigned

\* A singular field that one record names holds that child.
C28_SingularAssigned ==
    /\ Rebuilt
    /\ Len(ResultItems) = 3
    /\ ResultItems[2].id = "m"
    /\ IdsOf(ResultItems[2].fields["optional"].value) = <<"l1">>

\* The records without parent id, and whether a record is linked to the
\* record with the given id through the parent ids of the list.
Parentless == SelectSeq(rebuilt.items, LAMBDA it : it.parent_id = NoNode)

RECURSIVE LinkedTo(_, _)
LinkedTo(it, id) ==
    \/ it.id = id
    \/ /\ it.parent_id # NoNode
       /\ \E k \in 1..Len(rebuilt.items) :
             /\ rebuilt.items[k].id = it.parent_id
             /\ LinkedTo(rebuilt.items[k], id)

TimesInResult(id) == Cardinality({i \in 1..Len(ResultItems) : ResultItems[i].id = id})

\* C29 as stated: without a record that has no parent id the result is
\* None; with exactly one, the tree is built from it and every record
\* linked to it occurs exactly once in the result.
C29_EveryLinkedRecordOnce ==
    Rebuilt =>
        /\ Parentless = <<>> => rebuilt.none
        /\ Len(Parentless) = 1 =>
              /\ ~rebuilt.none
              /\ rebuilt.tree[1].id = Parentless[1].id
              /\ \A k \in 1..Len(rebuilt.items) :
                    LinkedTo(rebuilt.items[k], Parentless[1].id)
                       => TimesInResult(rebuilt.items[k].id) = 1

\* A record is passed over: several records name the singular field of its
\* parent, or an ancestor of it is passed over.
RECURSIVE PassedOver(_)
PassedOver(it) ==
    /\ it.parent_id # NoNode
    /\ \/ /\ ~IsListField(it.parent_field_name)
          /\ Len(RecordsNaming(it.parent_id, it.parent_field_name)) > 1
       \/ \E k \in 1..Len(rebuilt.items) :
             /\ rebuilt.items[k].id = it.parent_id
             /\ PassedOver(rebuilt.items[k])

\* What holds instead: None without a parentless record, else the tree of
\* the first parentless record, in which a record occurs once when it is
\* linked to that record and not passed over, and not at all otherwise.
C29_LinkedRecordsButPassedOver ==
    Rebuilt =>
        /\ Parentless = <<>> <=> rebuilt.none
        /\ Parentless # <<>> =>
              /\ rebuilt.tree[1].id = Parentless[1].id
              /\ \A k \in 1..Len(rebuilt.items) :
                    TimesInResult(rebuilt.items[k].id) =
                       IF /\ LinkedTo(rebuilt.items[k], Parentless[1].id)
                          /\ ~PassedOver(rebuilt.items[k])
                       THEN 1 ELSE 0

\* The two leaves were saved under the Mid's singular field; neither is in
\* the result.
C29_BothSingularChildrenMissing ==
    /\ Rebuilt
    /\ IdsOf(rebuilt.items) = <<"r", "m", "l1", "l2">>
    /\ rebuilt.items[3].parent_field_name = "optional"
    /\ rebuilt.items[4].parent_field_name = "optional"
    /\ IdsOf(ResultItems) = <<"r", "m">>

\* Records but none without parent id: the result is None.
C29_NoneReturned ==
    /\ Rebuilt
    /\ Len(rebuilt.items) = 3
    /\ rebuilt.none

EndsWith(str, suffix) ==
    /\ Len(str) >= Len(suffix)
    /\ SubSeq(str, Len(str) - Len(suffix) + 1, Len(str)) = suffix

\* The part of a record's keys that its own field values give: the
\* partition key of a record without parent, and the type and sk_fields
\* values that end its sort key.
OwnPartitionKey(rec) ==
    LET pf == pk_fields(ModelClass(rec.id))
    IN  Join(delimiter, [i \in 1..Len(pf) |-> rec.fld[pf[i]]])

OwnSortKeyEnd(rec) ==
    LET sf == sk_fields(ModelClass(rec.id))
    IN  Join(delimiter, <<type(ModelClass(rec.id))>> \o [i \in 1..Len(sf) |-> rec.fld[sf[i]]])

\* C30: in every state, whatever fields were assigned and whenever the tree
\* was saved, the key attributes of every stored record are the keys
\* derived from the field values of that record: a record without parent
\* has the partition key of its pk_fields values and the sort key of its
\* type and sk_fields values, and the sort key of a record with a parent
\* ends with its type and sk_fields values.
C30_StoredKeysFollowFields ==
    \A n \in Nodes :
       store[n] # NoRecord =>
          IF store[n].parent_id = NoNode
          THEN /\ store[n].gsi_pk = OwnPartitionKey(store[n])
               /\ store[n].gsi_sk = OwnSortKeyEnd(store[n])
          ELSE EndsWith(store[n].gsi_sk, OwnSortKeyEnd(store[n]))

\* The root was saved, its pk_field assigned another value, and saved
\* again: the record holds the new value under the old partition key.
C30_StaleKeyStored ==
    /\ Saved
    /\ store[Root] # NoRecord
    /\ store[Root].fld["foo"] = <<"q">>
    /\ store[Root].gsi_pk = <<"p">>
    /\ gpk[Root] = <<"p">>

====
